---- MODULE Spec2Model ----
(***************************************************************************)
(* Interest-profile and ad-ranking engine of the citizen services portal:  *)
(* AIUserCategorizer (src/ai_categorizer.py), SearchTracker                *)
(* (src/search_tracker.py) and AdMatcher (src/ad_matcher.py) over the      *)
(* MongoDB collections users, search_history, user_search_patterns,        *)
(* products, ad_views and ad_clicks.                                       *)
(*                                                                         *)
(* Conventions.  A Python str is a tuple of one-character strings, so that *)
(* lower(), split() and the substring test `in` are computed and not       *)
(* assumed.  Category labels, topics and statuses are only ever compared   *)
(* for equality and stay TLA+ strings.  A datetime is an integer number of *)
(* hours; a timedelta's .days is the floor of hours / 24.  An optional     *)
(* value is <<>> (None / key absent) or <<v>>.  An age of 0 stands for     *)
(* "None or 0": the code only ever tests `if age`.                         *)
(***************************************************************************)
EXTENDS Integers, Sequences, FiniteSets, TLC

VARIABLES
    now,            \* datetime.utcnow(), in hours
    steps,          \* number of operations taken so far
    users,          \* db["users"]: ObjectId -> user document
    search_history, \* db["search_history"]: the SearchEvent log, in insertion order
    search_patterns,\* db["user_search_patterns"]: user_id string -> <<>> or <<profile>>
    products,       \* db["products"]: the catalog, in scan order
    ad_views,       \* db["ad_views"]: the view log, in insertion order
    ad_clicks,      \* db["ad_clicks"]: the click log, in insertion order
    calls,          \* number of calls of each bounded operation so far
    last,           \* the last call: its name, arguments, outcome and return value
    regInput,       \* user_data handed to categorize_user_on_registration
    regResult,      \* <<>> or <<the dict it returned>>
    procs           \* the calls in progress, step by step: process -> its position and locals

vars == << now, steps, users, search_history, search_patterns, products,
           ad_views, ad_clicks, calls, last, regInput, regResult, procs >>

(***************************************************************************)
(* Python str operations                                                   *)
(***************************************************************************)
UpperAlpha == <<"A","B","C","D","E","F","G","H","I","J","K","L","M","N","O","P","Q","R","S","T","U","V","W","X","Y","Z">>
LowerAlpha == <<"a","b","c","d","e","f","g","h","i","j","k","l","m","n","o","p","q","r","s","t","u","v","w","x","y","z">>

\* the lower-case letter of each upper-case letter
ToLower ==
    [c \in {UpperAlpha[i] : i \in 1..Len(UpperAlpha)} |->
        LowerAlpha[CHOOSE i \in 1..Len(UpperAlpha) : UpperAlpha[i] = c]]

LowerChar(c) == IF c \in DOMAIN ToLower THEN ToLower[c] ELSE c

\* s.lower()
lower(s) == IF s = <<>> THEN <<>> ELSE [i \in 1..Len(s) |-> LowerChar(s[i])]

\* sub in s, for two str
Contains(sub, s) ==
    \E i \in 0..(Len(s) - Len(sub)) : \A j \in 1..Len(sub) : s[i + j] = sub[j]

RECURSIVE SplitFrom(_, _, _)
SplitFrom(s, i, cur) ==
    IF i > Len(s) THEN (IF cur = <<>> THEN <<>> ELSE <<cur>>)
    ELSE IF s[i] = " "
         THEN (IF cur = <<>> THEN SplitFrom(s, i + 1, <<>>)
                             ELSE <<cur>> \o SplitFrom(s, i + 1, <<>>))
         ELSE SplitFrom(s, i + 1, Append(cur, s[i]))

\* s.split(): the maximal runs of non-blank characters
split(s) == SplitFrom(s, 1, <<>>)

(***************************************************************************)
(* Python dict with int values, in insertion order: a sequence of          *)
(* [k, v] items                                                            *)
(***************************************************************************)
DictHas(d, k) == \E i \in 1..Len(d) : d[i].k = k

\* d.get(k, 0)
DictGet(d, k) ==
    IF DictHas(d, k) THEN d[CHOOSE i \in 1..Len(d) : d[i].k = k].v ELSE 0

\* d[k] = d.get(k, 0) + n
DictAdd(d, k, n) ==
    IF DictHas(d, k)
    THEN [i \in 1..Len(d) |-> IF d[i].k = k THEN [k |-> k, v |-> d[i].v + n] ELSE d[i]]
    ELSE Append(d, [k |-> k, v |-> n])

RECURSIVE DictAddAll(_, _)
\* the += statements of one rule, in order; bumps is a sequence of <<k, n>>
DictAddAll(d, bumps) ==
    IF bumps = <<>> THEN d
    ELSE DictAddAll(DictAdd(d, bumps[1][1], bumps[1][2]), Tail(bumps))

DictKeys(d) == {d[i].k : i \in 1..Len(d)}

\* the sequence s without its i-th element
RemoveAt(s, i) == SubSeq(s, 1, i - 1) \o SubSeq(s, i + 1, Len(s))

RECURSIVE SortedByValueDesc(_)
\* sorted(d.items(), key=lambda x: x[1], reverse=True): stable, so items of
\* equal value keep their insertion order
SortedByValueDesc(d) ==
    IF d = <<>> THEN <<>>
    ELSE LET first == CHOOSE i \in 1..Len(d) :
                          /\ \A j \in 1..Len(d) : d[j].v <= d[i].v
                          /\ \A j \in 1..(i - 1) : d[j].v < d[i].v
         IN  <<d[first]>> \o SortedByValueDesc(RemoveAt(d, first))

\* s[:n]
Take(s, n) == SubSeq(s, 1, IF n < Len(s) THEN n ELSE Len(s))


(***************************************************************************)
(* AIUserCategorizer.categorize_user_on_registration                       *)
(***************************************************************************)

GovernmentJobWords ==
    { <<"g","o","v","e","r","n","m","e","n","t">>,
      <<"o","f","f","i","c","e","r">> }
TeacherJobWords ==
    { <<"t","e","a","c","h","e","r">>,
      <<"l","e","c","t","u","r","e","r">>,
      <<"p","r","o","f","e","s","s","o","r">> }
TechJobWords ==
    { <<"e","n","g","i","n","e","e","r">>,
      <<"d","e","v","e","l","o","p","e","r">>,
      <<"i","t">>,
      <<"t","e","c","h">> }
ManagerJobWords ==
    { <<"m","a","n","a","g","e","r">>,
      <<"d","i","r","e","c","t","o","r">>,
      <<"c","e","o">>,
      <<"e","x","e","c","u","t","i","v","e">> }
BusinessJobWords ==
    { <<"b","u","s","i","n","e","s","s">>,
      <<"e","n","t","r","e","p","r","e","n","e","u","r">>,
      <<"o","w","n","e","r">> }
StudentJobWords ==
    { <<"s","t","u","d","e","n","t">> }
EducationInterests ==
    { <<"e","d","u","c","a","t","i","o","n">>,
      <<"l","e","a","r","n","i","n","g">> }
TechnologyInterests ==
    { <<"t","e","c","h","n","o","l","o","g","y">>,
      <<"t","e","c","h">>,
      <<"c","o","m","p","u","t","e","r","s">> }
BusinessInterests ==
    { <<"b","u","s","i","n","e","s","s">>,
      <<"e","n","t","r","e","p","r","e","n","e","u","r","s","h","i","p">> }
HealthInterests ==
    { <<"h","e","a","l","t","h">>,
      <<"f","i","t","n","e","s","s">>,
      <<"w","e","l","l","n","e","s","s">> }
TransportInterests ==
    { <<"t","r","a","n","s","p","o","r","t">>,
      <<"v","e","h","i","c","l","e","s">>,
      <<"c","a","r","s">> }
PropertyInterests ==
    { <<"h","o","u","s","i","n","g">>,
      <<"p","r","o","p","e","r","t","y">>,
      <<"r","e","a","l"," ","e","s","t","a","t","e">> }
EmploymentInterests ==
    { <<"e","m","p","l","o","y","m","e","n","t">>,
      <<"j","o","b","s">>,
      <<"c","a","r","e","e","r">> }
urban_areas ==
    { <<"c","o","l","o","m","b","o">>,
      <<"k","a","n","d","y">>,
      <<"g","a","m","p","a","h","a">>,
      <<"n","e","g","o","m","b","o">>,
      <<"m","o","r","a","t","u","w","a">> }

\* any(word in job for word in words)
AnyWordIn(words, text) == \E word \in words : Contains(word, text)

\* the label and the score bumps of the age band that `age` falls in
\* the bands with early_career ending below 30
AgeBandShort(age) ==
    IF age < 25 THEN
        [label |-> "young_adult",
         bumps |-> << <<"education_seeker", 30>>, <<"tech_enthusiast", 20>> >>]
    ELSE IF 25 <= age /\ age < 30 THEN
        [label |-> "early_career",
         bumps |-> << <<"career_focused", 30>>, <<"property_seeker", 10>> >>]
    ELSE IF 30 <= age /\ age <= 45 THEN
        [label |-> "mid_career_family",
         bumps |-> << <<"family_oriented", 30>>, <<"property_seeker", 20>>,
                      <<"vehicle_buyer", 20>> >>]
    ELSE IF 46 <= age /\ age <= 60 THEN
        [label |-> "established_professional",
         bumps |-> << <<"investment_focused", 30>>, <<"property_investor", 25>> >>]
    ELSE
        [label |-> "senior",
         bumps |-> << <<"health_focused", 20>> >>]

AgeBand(age) ==
    IF age < 25 THEN
        [label |-> "young_adult",
         bumps |-> << <<"education_seeker", 30>>, <<"tech_enthusiast", 20>> >>]
    ELSE IF 25 <= age /\ age <= 35 THEN
        [label |-> "early_career",
         bumps |-> << <<"career_focused", 30>>, <<"property_seeker", 10>> >>]
    ELSE IF 36 <= age /\ age <= 45 THEN
        [label |-> "mid_career_family",
         bumps |-> << <<"family_oriented", 30>>, <<"property_seeker", 20>>,
                      <<"vehicle_buyer", 20>> >>]
    ELSE IF 46 <= age /\ age <= 60 THEN
        [label |-> "established_professional",
         bumps |-> << <<"investment_focused", 30>>, <<"property_investor", 25>> >>]
    ELSE
        [label |-> "senior",
         bumps |-> << <<"health_focused", 20>> >>]

\* the age rules applied to an age of 0 as well
AgeRulesAlways(age, st) ==
    [categories |-> Append(st.categories, AgeBand(age).label),
     scores |-> DictAddAll(st.scores, AgeBand(age).bumps)]

\* st is [categories: sequence of labels, scores: dict]
AgeRules(age, st) ==
    IF age # 0
    THEN [categories |-> Append(st.categories, AgeBand(age).label),
          scores |-> DictAddAll(st.scores, AgeBand(age).bumps)]
    ELSE st

\* one `if <words> in job:` block
JobRule(words, label, bumps, job, st) ==
    IF AnyWordIn(words, job)
    THEN [categories |-> Append(st.categories, label),
          scores |-> DictAddAll(st.scores, bumps)]
    ELSE st

JobRules(job, st) ==
    IF job = <<>> THEN st
    ELSE LET s1 == JobRule(GovernmentJobWords, "government_employee",
                       << <<"education_seeker", 25>>, <<"course_buyer", 20>> >>, job, st)
             s2 == JobRule(TeacherJobWords, "education_professional",
                       << <<"book_buyer", 40>>, <<"course_creator", 30>> >>, job, s1)
             s3 == JobRule(TechJobWords, "tech_professional",
                       << <<"tech_enthusiast", 40>>, <<"electronics_buyer", 35>> >>, job, s2)
             s4 == JobRule(ManagerJobWords, "management",
                       << <<"vehicle_buyer", 30>>, <<"property_investor", 25>> >>, job, s3)
             s5 == JobRule(BusinessJobWords, "business_owner",
                       << <<"investment_focused", 35>>, <<"property_investor", 30>> >>, job, s4)
         IN  JobRule(StudentJobWords, "student",
                       << <<"education_seeker", 50>>, <<"book_buyer", 45>>,
                          <<"past_paper_buyer", 40>> >>, job, s5)

\* one `if interest in [...]:` block
InterestRule(vocabulary, bumps, interest, scores) ==
    IF interest \in vocabulary THEN DictAddAll(scores, bumps) ELSE scores

OneInterest(interest, scores) ==
    LET s1 == InterestRule(EducationInterests,
                  << <<"education_seeker", 35>>, <<"course_buyer", 30>>,
                     <<"book_buyer", 25>> >>, interest, scores)
        s2 == InterestRule(TechnologyInterests,
                  << <<"tech_enthusiast", 35>>, <<"electronics_buyer", 30>> >>, interest, s1)
        s3 == InterestRule(BusinessInterests,
                  << <<"business_oriented", 35>>, <<"course_buyer", 20>> >>, interest, s2)
        s4 == InterestRule(HealthInterests,
                  << <<"health_focused", 35>> >>, interest, s3)
        s5 == InterestRule(TransportInterests,
                  << <<"vehicle_buyer", 40>> >>, interest, s4)
        s6 == InterestRule(PropertyInterests,
                  << <<"property_seeker", 40>> >>, interest, s5)
    IN  InterestRule(EmploymentInterests,
                  << <<"career_focused", 35>>, <<"course_buyer", 25>> >>, interest, s6)

RECURSIVE InterestRules(_, _)
\* for interest in interests: ...
InterestRules(interests, scores) ==
    IF interests = <<>> THEN scores
    ELSE InterestRules(Tail(interests), OneInterest(interests[1], scores))

LocationRules(location, st) ==
    IF location # <<>> /\ \E city \in urban_areas : Contains(city, location)
    THEN [categories |-> Append(st.categories, "urban_resident"),
          scores |-> DictAddAll(st.scores,
                        << <<"tech_enthusiast", 10>>, <<"electronics_buyer", 10>> >>)]
    ELSE [categories |-> Append(st.categories, "rural_resident"),
          scores |-> st.scores]

TopN == 5
RegistrationThreshold == 20

\* every category that reaches the threshold, whatever its rank
AllAboveThreshold(scores) ==
    {scores[i].k : i \in {j \in 1..Len(scores) : scores[j].v >= RegistrationThreshold}}

\* the labels added by `for category, score in sorted_scores[:5]: if score >= 20`
TopScoring(scores) ==
    LET top == Take(SortedByValueDesc(scores), TopN)
    IN  {top[i].k : i \in {j \in 1..Len(top) : top[j].v >= RegistrationThreshold}}

SeqToSet(s) == {s[i] : i \in 1..Len(s)}

\* [i.lower() for i in items]
LowerAll(items) ==
    IF items = <<>> THEN <<>> ELSE [i \in 1..Len(items) |-> lower(items[i])]

\* user_data is [age, job, location, interests]; the returned dict
categorize_user_on_registration(user_data, utcnow) ==
    LET age       == user_data.age
        job       == lower(user_data.job)
        location  == lower(user_data.location)
        interests == LowerAll(user_data.interests)
        s0 == [categories |-> <<>>, scores |-> <<>>]
        s1 == AgeRules(age, s0)
        s2 == JobRules(job, s1)
        s3 == [categories |-> s2.categories,
               scores |-> InterestRules(interests, s2.scores)]
        s4 == LocationRules(location, s3)
    IN  [categories |-> SeqToSet(s4.categories) \cup TopScoring(s4.scores),
         category_scores |-> s4.scores,
         categorized_at |-> <<utcnow>>,
         last_recategorized |-> <<>>,
         categorization_type |-> "registration"]


(***************************************************************************)
(* bson.ObjectId and the users collection                                  *)
(***************************************************************************)
\* result.inserted_id of insert_one into search_history, as a string: the
\* n-th document inserted gets the n-th of these
SearchIds == <<"s1", "s2", "s3", "s4", "s5", "s6", "s7", "s8", "s9">>

\* the strings that parse as an ObjectId; any other raises InvalidId
ObjectIdStrings ==
    {"u1", "u2", "u9", "pA", "pB", "pC", "pD", "pE"}
        \cup {SearchIds[n] : n \in 1..Len(SearchIds)}

IsValidObjectId(s) == s \in ObjectIdStrings

\* ObjectId(s), for a valid s: a value that is never equal to the string s
ObjectId(s) == [oid |-> s]

\* str(ObjectId)
str(o) == o.oid

\* users_col.find_one({"_id": ObjectId(user_id)}) finds a document
UserExists(col, user_id) == ObjectId(user_id) \in DOMAIN col

\* user.get("ai_categories", {}), then the isinstance branches: the labels
\* read from either stored shape
StoredCategories(ai) == IF ai.fmt \in {"dict", "list"} THEN ai.categories ELSE {}

(***************************************************************************)
(* SearchTracker                                                           *)
(***************************************************************************)

education_keywords ==
    { <<"s","c","h","o","o","l">>,
      <<"e","d","u","c","a","t","i","o","n">>,
      <<"c","o","u","r","s","e">>,
      <<"c","l","a","s","s">>,
      <<"s","t","u","d","y">>,
      <<"e","x","a","m">>,
      <<"t","e","s","t">>,
      <<"b","o","o","k">>,
      <<"p","a","p","e","r">>,
      <<"u","n","i","v","e","r","s","i","t","y">>,
      <<"c","o","l","l","e","g","e">>,
      <<"t","e","a","c","h","e","r">>,
      <<"s","t","u","d","e","n","t">>,
      <<"o","/","l">>,
      <<"a","/","l">>,
      <<"g","r","a","d","e">>,
      <<"t","u","i","t","i","o","n">>,
      <<"s","c","h","o","l","a","r","s","h","i","p">>,
      <<"a","d","m","i","s","s","i","o","n">> }
health_keywords ==
    { <<"h","e","a","l","t","h">>,
      <<"h","o","s","p","i","t","a","l">>,
      <<"d","o","c","t","o","r">>,
      <<"c","l","i","n","i","c">>,
      <<"m","e","d","i","c","a","l">>,
      <<"m","e","d","i","c","i","n","e">>,
      <<"t","r","e","a","t","m","e","n","t">>,
      <<"d","i","s","e","a","s","e">>,
      <<"v","a","c","c","i","n","e">>,
      <<"a","p","p","o","i","n","t","m","e","n","t">>,
      <<"s","u","r","g","e","r","y">> }
business_keywords ==
    { <<"b","u","s","i","n","e","s","s">>,
      <<"r","e","g","i","s","t","e","r">>,
      <<"c","o","m","p","a","n","y">>,
      <<"t","a","x">>,
      <<"l","i","c","e","n","s","e">>,
      <<"p","e","r","m","i","t">>,
      <<"t","r","a","d","e">>,
      <<"e","n","t","e","r","p","r","i","s","e">>,
      <<"s","t","a","r","t","u","p">>,
      <<"v","a","t">>,
      <<"c","o","m","m","e","r","c","i","a","l">> }
employment_keywords ==
    { <<"j","o","b">>,
      <<"w","o","r","k">>,
      <<"e","m","p","l","o","y","m","e","n","t">>,
      <<"c","a","r","e","e","r">>,
      <<"s","a","l","a","r","y">>,
      <<"p","o","s","i","t","i","o","n">>,
      <<"h","i","r","i","n","g">>,
      <<"v","a","c","a","n","c","y">>,
      <<"r","e","s","u","m","e">>,
      <<"i","n","t","e","r","v","i","e","w">>,
      <<"t","r","a","i","n","i","n","g">> }
tech_keywords ==
    { <<"c","o","m","p","u","t","e","r">>,
      <<"s","o","f","t","w","a","r","e">>,
      <<"i","n","t","e","r","n","e","t">>,
      <<"o","n","l","i","n","e">>,
      <<"d","i","g","i","t","a","l">>,
      <<"a","p","p">>,
      <<"w","e","b","s","i","t","e">>,
      <<"t","e","c","h">>,
      <<"e","l","e","c","t","r","o","n","i","c">>,
      <<"m","o","b","i","l","e">>,
      <<"p","h","o","n","e">>,
      <<"l","a","p","t","o","p">> }
transport_keywords ==
    { <<"v","e","h","i","c","l","e">>,
      <<"c","a","r">>,
      <<"l","i","c","e","n","s","e">>,
      <<"d","r","i","v","i","n","g">>,
      <<"t","r","a","n","s","p","o","r","t">>,
      <<"r","o","a","d">>,
      <<"t","r","a","f","f","i","c">>,
      <<"m","o","t","o","r">>,
      <<"r","e","g","i","s","t","r","a","t","i","o","n">>,
      <<"b","i","k","e">>,
      <<"b","u","s">> }
property_keywords ==
    { <<"l","a","n","d">>,
      <<"h","o","u","s","e">>,
      <<"p","r","o","p","e","r","t","y">>,
      <<"d","e","e","d">>,
      <<"b","u","i","l","d","i","n","g">>,
      <<"r","e","a","l"," ","e","s","t","a","t","e">>,
      <<"r","e","n","t">>,
      <<"b","u","y">>,
      <<"a","p","a","r","t","m","e","n","t">>,
      <<"h","o","m","e">>,
      <<"c","o","n","s","t","r","u","c","t","i","o","n">> }
immigration_keywords ==
    { <<"p","a","s","s","p","o","r","t">>,
      <<"v","i","s","a">>,
      <<"t","r","a","v","e","l">>,
      <<"i","m","m","i","g","r","a","t","i","o","n">>,
      <<"e","m","b","a","s","s","y">>,
      <<"f","o","r","e","i","g","n">>,
      <<"a","b","r","o","a","d">>,
      <<"m","i","g","r","a","t","i","o","n">>,
      <<"c","i","t","i","z","e","n">> }

WindowDays == 30
HoursPerDay == 24
TopKeywords == 20
TopCategories == 10
MinKeywordLen == 2

\* search_history_col.find({"user_id": user_id, "timestamp": {"$gte": since}})
\* .sort("timestamp", -1), from position i of the log down; since is <<>> for
\* a find without the timestamp filter.  The log is in timestamp order, so
\* a find whose filter lacks the user_id
FindSearchesAnyUser(log, i, user_id, since) ==
    [j \in 1..Len(SelectSeq(SubSeq(log, 1, i),
                            LAMBDA doc : since = <<>> \/ doc.timestamp >= since[1])) |->
        SelectSeq(SubSeq(log, 1, i),
                  LAMBDA doc : since = <<>> \/ doc.timestamp >= since[1])[j]]

\* newest first is the matching events in reverse insertion order
RECURSIVE FindSearches(_, _, _, _)
FindSearches(log, i, user_id, since) ==
    IF i = 0 THEN <<>>
    ELSE IF log[i].user_id = user_id /\ (since = <<>> \/ log[i].timestamp >= since[1])
         THEN <<log[i]>> \o FindSearches(log, i - 1, user_id, since)
         ELSE FindSearches(log, i - 1, user_id, since)

\* [word.strip() for word in query.lower().split() if len(word.strip()) > 2]
Keywords(query) ==
    SelectSeq(split(lower(query)), LAMBDA word : Len(word) > MinKeywordLen)

RECURSIVE AllKeywords(_)
AllKeywords(searches) ==
    IF searches = <<>> THEN <<>>
    ELSE Keywords(searches[1].query) \o AllKeywords(Tail(searches))

RECURSIVE AllCategories(_)
\* the truthy category fields, in order
AllCategories(searches) ==
    IF searches = <<>> THEN <<>>
    ELSE searches[1].category \o AllCategories(Tail(searches))

RECURSIVE Counter(_)
\* collections.Counter(items): counts in first-encounter order
Counter(items) ==
    IF items = <<>> THEN <<>>
    ELSE DictAdd(Counter(SubSeq(items, 1, Len(items) - 1)), items[Len(items)], 1)

\* dict(counter.most_common(n))
MostCommon(counter, n) == Take(SortedByValueDesc(counter), n)

\* every keyword counted, in the list of the topic or not
KeywordCount(user_keywords, category_keywords) == Len(user_keywords)

\* sum(1 for kw in user_keywords if kw in category_keywords)
_keyword_match_score(user_keywords, category_keywords) ==
    Cardinality({i \in 1..Len(user_keywords) : user_keywords[i] \in category_keywords})

\* list(keywords.keys())
KeyList(d) == IF d = <<>> THEN <<>> ELSE [i \in 1..Len(d) |-> d[i].k]

_calculate_interest_scores(keywords, categories) ==
    LET keyword_list == KeyList(keywords)
    IN  << [k |-> "education",   v |-> _keyword_match_score(keyword_list, education_keywords)],
           [k |-> "health",      v |-> _keyword_match_score(keyword_list, health_keywords)],
           [k |-> "business",    v |-> _keyword_match_score(keyword_list, business_keywords)],
           [k |-> "employment",  v |-> _keyword_match_score(keyword_list, employment_keywords)],
           [k |-> "technology",  v |-> _keyword_match_score(keyword_list, tech_keywords)],
           [k |-> "transport",   v |-> _keyword_match_score(keyword_list, transport_keywords)],
           [k |-> "property",    v |-> _keyword_match_score(keyword_list, property_keywords)],
           [k |-> "immigration", v |-> _keyword_match_score(keyword_list, immigration_keywords)] >>

\* searches_per_day = search_count / days, compared with 5, 2 and 0.5
_calculate_search_frequency(search_count, days) ==
    IF search_count >= 5 * days THEN "very_active"
    ELSE IF search_count >= 2 * days THEN "active"
    ELSE IF 2 * search_count >= days THEN "moderate"
    ELSE "occasional"

\* the document that _update_search_patterns $sets for `searches`
PatternsDoc(user_id, searches, utcnow) ==
    LET top_keywords   == MostCommon(Counter(AllKeywords(searches)), TopKeywords)
        top_categories == MostCommon(Counter(AllCategories(searches)), TopCategories)
    IN  [user_id |-> user_id,
         search_count |-> Len(searches),
         top_keywords |-> top_keywords,
         top_categories |-> top_categories,
         interest_scores |-> _calculate_interest_scores(top_keywords, top_categories),
         last_updated |-> utcnow,
         search_frequency |-> _calculate_search_frequency(Len(searches), WindowDays)]

\* search_patterns_col.find_one({"user_id": user_id}): <<>> or <<document>>
FindPatterns(col, user_id) ==
    IF \E i \in 1..Len(col) : col[i].user_id = user_id
    THEN <<col[CHOOSE i \in 1..Len(col) :
                  /\ col[i].user_id = user_id
                  /\ \A j \in 1..(i - 1) : col[j].user_id # user_id]>>
    ELSE <<>>

\* an insert_one of the document
UpsertAppend(col, user_id, doc) == Append(col, doc)

\* an update that leaves the stored search_count as it is
UpsertKeepCount(col, user_id, doc) ==
    IF \E i \in 1..Len(col) : col[i].user_id = user_id
    THEN LET first == CHOOSE i \in 1..Len(col) : col[i].user_id = user_id
         IN  [col EXCEPT ![first] = [doc EXCEPT !.search_count = col[first].search_count]]
    ELSE Append(col, doc)

\* search_patterns_col.update_one({"user_id": user_id}, {"$set": doc}, upsert=True):
\* every field of the document is in the $set, so the first match is replaced
Upsert(col, user_id, doc) ==
    IF \E i \in 1..Len(col) : col[i].user_id = user_id
    THEN LET first == CHOOSE i \in 1..Len(col) :
                          /\ col[i].user_id = user_id
                          /\ \A j \in 1..(i - 1) : col[j].user_id # user_id
         IN  [col EXCEPT ![first] = doc]
    ELSE Append(col, doc)

\* a recompute that leaves the collection as it is
PatternsKept(col, log, user_id, utcnow) == col

\* the user_search_patterns collection after _update_search_patterns(user_id)
_update_search_patterns(col, log, user_id, utcnow) ==
    LET searches == FindSearches(log, Len(log), user_id,
                                 <<utcnow - WindowDays * HoursPerDay>>)
    IN  IF searches = <<>> THEN col
        ELSE Upsert(col, user_id, PatternsDoc(user_id, searches, utcnow))

EducationThreshold == 5
TopicThreshold == 3

\* the labels that _recategorize_user adds for a profile
SearchBasedCategories(interest_scores, search_frequency) ==
    (IF DictGet(interest_scores, "education") >= EducationThreshold
        THEN {"education_seeker", "course_buyer"} ELSE {})
    \cup (IF DictGet(interest_scores, "technology") >= TopicThreshold
        THEN {"tech_enthusiast", "electronics_buyer"} ELSE {})
    \cup (IF DictGet(interest_scores, "business") >= TopicThreshold
        THEN {"business_owner", "entrepreneur"} ELSE {})
    \cup (IF DictGet(interest_scores, "employment") >= TopicThreshold
        THEN {"job_seeker", "career_focused"} ELSE {})
    \cup (IF DictGet(interest_scores, "property") >= TopicThreshold
        THEN {"property_seeker", "property_investor"} ELSE {})
    \cup (IF DictGet(interest_scores, "health") >= TopicThreshold
        THEN {"health_focused"} ELSE {})
    \cup (IF DictGet(interest_scores, "immigration") >= TopicThreshold
        THEN {"travel_seeker", "passport_applicant"} ELSE {})
    \cup (IF search_frequency \in {"active", "very_active"}
        THEN {"power_user", "engaged_user"} ELSE {})

\* new_categories = set(existing_categories), then the .add calls
\* new_categories built from the search-based labels alone
RecategorizedLabelsReplaced(existing_categories, patterns) ==
    SearchBasedCategories(patterns.interest_scores, patterns.search_frequency)

\* new_categories: set(existing_categories) and what the passes add to it
RecategorizedLabels(existing_categories, patterns) ==
    existing_categories
        \cup SearchBasedCategories(patterns.interest_scores, patterns.search_frequency)

\* the ai_categories value that _recategorize_user writes: the dict keeps its
\* other keys, any other shape becomes a plain list
RecategorizedValue(ai, patterns, utcnow) ==
    IF ai.fmt = "dict"
    THEN [ai EXCEPT !.categories = RecategorizedLabels(StoredCategories(ai), patterns),
                    !.last_recategorized = <<utcnow>>]
    ELSE [fmt |-> "list",
          categories |-> RecategorizedLabels(StoredCategories(ai), patterns),
          category_scores |-> <<>>,
          categorized_at |-> <<>>,
          last_recategorized |-> <<>>,
          categorization_type |-> ""]

\* how _recategorize_user(user_id) ends: "no_patterns" and "no_user" are its
\* early returns, "raised" is ObjectId(user_id) raising InvalidId
RecategorizeOutcome(ucol, col, user_id) ==
    IF FindPatterns(col, user_id) = <<>> THEN "no_patterns"
    ELSE IF ~IsValidObjectId(user_id) THEN "raised"
    ELSE IF ~UserExists(ucol, user_id) THEN "no_user"
    ELSE "updated"

\* the users collection ucol after _recategorize_user(user_id), given the
\* user_search_patterns collection col it reads
_recategorize_user(ucol, col, user_id, utcnow) ==
    IF RecategorizeOutcome(ucol, col, user_id) = "updated"
    THEN [ucol EXCEPT ![ObjectId(user_id)].ai_categories =
              RecategorizedValue(@, FindPatterns(col, user_id)[1], utcnow)]
    ELSE ucol

(***************************************************************************)
(* AIUserCategorizer.recategorize_based_on_search                          *)
(***************************************************************************)

EducationSearchWords ==
    { <<"d","e","g","r","e","e">>,
      <<"c","o","u","r","s","e">>,
      <<"e","d","u","c","a","t","i","o","n">>,
      <<"s","t","u","d","y">>,
      <<"l","e","a","r","n">>,
      <<"c","l","a","s","s">>,
      <<"t","u","i","t","i","o","n">> }
BookSearchWords ==
    { <<"b","o","o","k">>,
      <<"p","a","p","e","r">>,
      <<"p","a","s","t"," ","p","a","p","e","r">>,
      <<"g","u","i","d","e">>,
      <<"n","o","t","e","s">> }
TechSearchWords ==
    { <<"l","a","p","t","o","p">>,
      <<"p","h","o","n","e">>,
      <<"c","o","m","p","u","t","e","r">>,
      <<"g","a","d","g","e","t">>,
      <<"t","e","c","h">>,
      <<"e","l","e","c","t","r","o","n","i","c">> }
VehicleSearchWords ==
    { <<"c","a","r">>,
      <<"v","e","h","i","c","l","e">>,
      <<"b","i","k","e">>,
      <<"m","o","t","o","r","c","y","c","l","e">>,
      <<"v","a","n">>,
      <<"a","u","t","o">> }
PropertySearchWords ==
    { <<"l","a","n","d">>,
      <<"h","o","u","s","e">>,
      <<"p","r","o","p","e","r","t","y">>,
      <<"a","p","a","r","t","m","e","n","t">>,
      <<"e","s","t","a","t","e">>,
      <<"p","l","o","t">> }
CareerSearchWords ==
    { <<"j","o","b">>,
      <<"c","a","r","e","e","r">>,
      <<"e","m","p","l","o","y","m","e","n","t">>,
      <<"w","o","r","k">>,
      <<"v","a","c","a","n","c","y">> }
NewsSearchWords ==
    { <<"n","e","w","s">>,
      <<"n","e","w","s","p","a","p","e","r">>,
      <<"m","a","g","a","z","i","n","e">>,
      <<"a","r","t","i","c","l","e">> }

SearchLimit == 50
SearchThreshold == 15

\* one `if any(word in query for word in [...]):` block
SearchRule(words, bumps, query, scores) ==
    IF AnyWordIn(words, query) THEN DictAddAll(scores, bumps) ELSE scores

OneSearch(query, scores) ==
    LET s1 == SearchRule(EducationSearchWords,
                  << <<"education_seeker", 5>>, <<"course_buyer", 4>> >>, query, scores)
        s2 == SearchRule(BookSearchWords,
                  << <<"book_buyer", 5>>, <<"past_paper_buyer", 5>> >>, query, s1)
        s3 == SearchRule(TechSearchWords,
                  << <<"tech_enthusiast", 5>>, <<"electronics_buyer", 6>> >>, query, s2)
        s4 == SearchRule(VehicleSearchWords,
                  << <<"vehicle_buyer", 6>> >>, query, s3)
        s5 == SearchRule(PropertySearchWords,
                  << <<"property_seeker", 6>>, <<"property_investor", 4>> >>, query, s4)
        s6 == SearchRule(CareerSearchWords,
                  << <<"career_focused", 5>> >>, query, s5)
    IN  SearchRule(NewsSearchWords,
                  << <<"news_reader", 4>> >>, query, s6)

RECURSIVE SearchScores(_, _)
\* search_scores after `for search in searches:`
SearchScores(searches, scores) ==
    IF searches = <<>> THEN scores
    ELSE SearchScores(Tail(searches), OneSearch(lower(searches[1].query), scores))

\* a merge that keeps the scores of this pass alone
MergeScoresReset(current_scores, search_scores) == search_scores

RECURSIVE MergeScores(_, _)
\* for category, score in search_scores.items(): current_scores[category] += score
MergeScores(current_scores, search_scores) ==
    IF search_scores = <<>> THEN current_scores
    ELSE MergeScores(DictAdd(current_scores, search_scores[1].k, search_scores[1].v),
                     Tail(search_scores))

\* the categories whose score from this pass reaches the threshold
HighScoring(search_scores) ==
    {search_scores[i].k : i \in {j \in 1..Len(search_scores) :
                                    search_scores[j].v >= SearchThreshold}}

\* updated_categorization, for a stored dict `ai` and the user's searches
UpdatedCategorization(ai, searches, utcnow) ==
    LET search_scores == SearchScores(searches, <<>>)
    IN  [fmt |-> "dict",
         categories |-> ai.categories \cup HighScoring(search_scores),
         category_scores |-> MergeScores(ai.category_scores, search_scores),
         categorized_at |-> <<>>,
         last_recategorized |-> <<utcnow>>,
         categorization_type |-> "search_behavior"]

\* search_history_col.find({"user_id": user_id}).sort("timestamp", -1).limit(50)
LastSearches(log, user_id) ==
    Take(FindSearches(log, Len(log), user_id, <<>>), SearchLimit)

\* how recategorize_based_on_search(user_id) ends: "raised" is ObjectId
\* raising InvalidId, or .get called on an ai_categories that is no dict
SearchRecategorizeOutcome(ucol, log, user_id) ==
    IF ~IsValidObjectId(user_id) THEN "raised"
    ELSE IF ~UserExists(ucol, user_id) THEN "no_user"
    ELSE IF LastSearches(log, user_id) = <<>> THEN "no_searches"
    ELSE IF ucol[ObjectId(user_id)].ai_categories.fmt # "dict" THEN "raised"
    ELSE "updated"

\* the users collection ucol after recategorize_based_on_search(user_id)
recategorize_based_on_search(ucol, log, user_id, utcnow) ==
    IF SearchRecategorizeOutcome(ucol, log, user_id) = "updated"
    THEN [ucol EXCEPT ![ObjectId(user_id)].ai_categories =
              UpdatedCategorization(@, LastSearches(log, user_id), utcnow)]
    ELSE ucol

(***************************************************************************)
(* AdMatcher                                                               *)
(***************************************************************************)

category_interest_map ==
    << [k |-> <<"b","o","o","k","s">>, v |-> "education"],
       [k |-> <<"p","a","s","t","_","p","a","p","e","r","s">>, v |-> "education"],
       [k |-> <<"s","t","u","d","y","_","g","u","i","d","e","s">>, v |-> "education"],
       [k |-> <<"c","o","u","r","s","e","s">>, v |-> "education"],
       [k |-> <<"e","l","e","c","t","r","o","n","i","c","s">>, v |-> "technology"],
       [k |-> <<"c","o","m","p","u","t","e","r","s">>, v |-> "technology"],
       [k |-> <<"p","h","o","n","e","s">>, v |-> "technology"],
       [k |-> <<"v","e","h","i","c","l","e","s">>, v |-> "transport"],
       [k |-> <<"c","a","r","s">>, v |-> "transport"],
       [k |-> <<"b","i","k","e","s">>, v |-> "transport"],
       [k |-> <<"p","r","o","p","e","r","t","y">>, v |-> "property"],
       [k |-> <<"l","a","n","d">>, v |-> "property"],
       [k |-> <<"h","o","u","s","e","s">>, v |-> "property"] >>

CategoryPoints == 10
InterestPoints == 2
AgePoints == 5
LocationPoints == 3
NewDays == 7
NewPoints == 5
RecentDays == 30
RecentPoints == 2
MinViewsForCtr == 10
CtrPoints == 10
DiversityHours == 24
DiversityPenalty == 5
DefaultMinAge == 0
DefaultMaxAge == 100

\* the target-location entry that matches every user
AllLocations == <<"a","l","l">>

\* col.count_documents({"product_id": product_id})
CountProduct(log, product_id) ==
    Cardinality({i \in 1..Len(log) : log[i].product_id = product_id})

\* a count of the views of all times
CountViewsEver(log, user_id, product_id, since) ==
    Cardinality({i \in 1..Len(log) : /\ log[i].user_id = user_id
                                     /\ log[i].product_id = product_id})

\* ad_views_col.count_documents({"user_id": ..., "product_id": ...,
\*                               "timestamp": {"$gte": since}})
CountRecentViews(log, user_id, product_id, since) ==
    Cardinality({i \in 1..Len(log) : /\ log[i].user_id = user_id
                                     /\ log[i].product_id = product_id
                                     /\ log[i].timestamp >= since})

\* 1. category matching
CategoryTerm(product, user_categories) ==
    Cardinality(user_categories \cap product.target_categories) * CategoryPoints

\* an interest matching on the category as it is written
InterestTermAsWritten(product, interest_scores) ==
    IF DictHas(category_interest_map, product.category)
    THEN LET related_interest ==
                 category_interest_map[CHOOSE i \in 1..Len(category_interest_map) :
                     category_interest_map[i].k = product.category].v
         IN  IF DictGet(interest_scores, related_interest) > 0
             THEN DictGet(interest_scores, related_interest) * InterestPoints
             ELSE 0
    ELSE 0

\* 2. interest matching: category_interest_map.get(product_category), then
\*    the score of that topic when it is positive
InterestTerm(product, interest_scores) ==
    LET product_category == lower(product.category)
    IN  IF DictHas(category_interest_map, product_category)
        THEN LET related_interest ==
                     category_interest_map[CHOOSE i \in 1..Len(category_interest_map) :
                         category_interest_map[i].k = product_category].v
             IN  IF DictGet(interest_scores, related_interest) > 0
                 THEN DictGet(interest_scores, related_interest) * InterestPoints
                 ELSE 0
        ELSE 0

\* 3. age-based relevance
AgeTerm(product, user_age) ==
    IF user_age # 0 /\ product.age_range # <<>>
    THEN LET min_age == IF product.age_range[1].min = <<>> THEN DefaultMinAge
                        ELSE product.age_range[1].min[1]
             max_age == IF product.age_range[1].max = <<>> THEN DefaultMaxAge
                        ELSE product.age_range[1].max[1]
         IN  IF min_age <= user_age /\ user_age <= max_age THEN AgePoints ELSE 0
    ELSE 0

\* a location test without the 'all' wildcard
LocationTermExact(product, user_location) ==
    IF user_location # <<>> /\ product.target_locations # <<>>
    THEN IF user_location \in product.target_locations[1]
         THEN LocationPoints ELSE 0
    ELSE 0

\* 4. location-based relevance
LocationTerm(product, user_location) ==
    IF user_location # <<>> /\ product.target_locations # <<>>
    THEN IF user_location \in product.target_locations[1]
            \/ AllLocations \in product.target_locations[1]
         THEN LocationPoints ELSE 0
    ELSE 0

\* 5. recency boost: days_old = (utcnow - created_at).days
RecencyTerm(product, utcnow) ==
    IF product.created_at # <<>>
    THEN LET days_old == (utcnow - product.created_at[1]) \div HoursPerDay
         IN  IF days_old < NewDays THEN NewPoints
             ELSE IF days_old < RecentDays THEN RecentPoints
             ELSE 0
    ELSE 0

\* `if views >= 10`
EnoughViewsFrom(views) == views >= MinViewsForCtr

\* `if views > 10`
EnoughViews(views) == views > MinViewsForCtr

\* 6. click-through rate boost: int(clicks / views * 10) once there are
\*    enough views
CtrTerm(clicks, views) ==
    IF EnoughViews(views) THEN (clicks * CtrPoints) \div views ELSE 0

\* 7. the repetition penalty for recent_views views in the last 24 hours
\* no penalty for repetition
PenaltyTermNone(recent_views) == 0

PenaltyTerm(recent_views) ==
    IF recent_views > 0 THEN recent_views * DiversityPenalty ELSE 0

\* the views of the product by this user that count as recent
RecentViews(product, user_id, views_log, utcnow) ==
    CountRecentViews(views_log, user_id, str(product._id), utcnow - DiversityHours)

\* the score before `return max(score, 0)`
RawScore(product, user_categories, interest_scores, user_age, user_location, user_id, views_log, clicks_log, utcnow) ==
    CategoryTerm(product, user_categories)
    + InterestTerm(product, interest_scores)
    + AgeTerm(product, user_age)
    + LocationTerm(product, user_location)
    + RecencyTerm(product, utcnow)
    + CtrTerm(CountProduct(clicks_log, str(product._id)),
              CountProduct(views_log, str(product._id)))
    - PenaltyTerm(RecentViews(product, user_id, views_log, utcnow))

\* the score returned as it is
FloorNone(score) == score

\* max(score, 0)
Floor(score) == IF score > 0 THEN score ELSE 0

_calculate_relevance_score(product, user_categories, interest_scores, user_age, user_location, user_id, views_log, clicks_log, utcnow) ==
    Floor(RawScore(product, user_categories, interest_scores, user_age,
                   user_location, user_id, views_log, clicks_log, utcnow))

\* a filter on the status alone
IsApproved(product) == product.status = "approved"

\* products_col.find({"status": "approved",
\*                    "$or": [{"stock": {"$gt": 0}}, {"stock": {"$exists": False}}]})
IsActive(product) ==
    /\ product.status = "approved"
    /\ (product.stock = <<>> \/ product.stock[1] > 0)

\* the score of a product for a stored user, read from the collections
ScoreFor(product, user_id, views_log, clicks_log, utcnow) ==
    LET user     == users[ObjectId(user_id)]
        patterns == FindPatterns(search_patterns, user_id)
    IN  _calculate_relevance_score(
            product,
            StoredCategories(user.ai_categories),
            IF patterns = <<>> THEN <<>> ELSE patterns[1].interest_scores,
            user.age, user.location, user_id, views_log, clicks_log, utcnow)

\* the score before the floor of a product for a stored user
RawScoreFor(product, user_id, views_log, clicks_log, utcnow) ==
    LET user     == users[ObjectId(user_id)]
        patterns == FindPatterns(search_patterns, user_id)
    IN  RawScore(
            product,
            StoredCategories(user.ai_categories),
            IF patterns = <<>> THEN <<>> ELSE patterns[1].interest_scores,
            user.age, user.location, user_id, views_log, clicks_log, utcnow)

\* a test that lets every scored product on the list
EligibleAny(score) == score >= 0

\* `if score > 0:`, the test that puts a scored product on the list
Eligible(score) == score > 0

\* scored_products before the sort: the active products that pass the test,
\* in scan order, as [product_id, relevance_score]
ScoredProducts(user_id) ==
    LET scored(product) ==
            [product_id |-> str(product._id),
             relevance_score |-> ScoreFor(product, user_id, ad_views, ad_clicks, now)]
        RECURSIVE Scan(_)
        Scan(i) ==
            IF i > Len(products) THEN <<>>
            ELSE IF IsActive(products[i])
                 THEN LET entry == scored(products[i])
                      IN  IF Eligible(entry.relevance_score)
                          THEN <<entry>> \o Scan(i + 1) ELSE Scan(i + 1)
                 ELSE Scan(i + 1)
    IN  Scan(1)

RECURSIVE SortByScoreDesc(_)
\* scored_products.sort(key=lambda x: x['relevance_score'], reverse=True): stable
SortByScoreDesc(s) ==
    IF s = <<>> THEN <<>>
    ELSE LET first == CHOOSE i \in 1..Len(s) :
                          /\ \A j \in 1..Len(s) : s[j].relevance_score <= s[i].relevance_score
                          /\ \A j \in 1..(i - 1) : s[j].relevance_score < s[i].relevance_score
         IN  <<s[first]>> \o SortByScoreDesc(RemoveAt(s, first))

\* a slice that keeps one entry more
SliceThrough(s, limit) == Take(s, limit + 1)

\* scored_products[:limit], for any int limit
Slice(s, limit) ==
    IF limit >= 0 THEN Take(s, limit)
    ELSE Take(s, IF Len(s) + limit > 0 THEN Len(s) + limit ELSE 0)

\* top_ads
TopAds(user_id, limit) == Slice(SortByScoreDesc(ScoredProducts(user_id)), limit)

\* the product ids of a slate, in order
SlateIds(slate) == IF slate = <<>> THEN <<>> ELSE [i \in 1..Len(slate) |-> slate[i].product_id]

\* a view document for the first product only
ViewDocsFirst(user_id, product_ids, utcnow) ==
    IF product_ids = <<>> THEN <<>>
    ELSE <<[user_id |-> user_id, product_id |-> product_ids[1], timestamp |-> utcnow]>>

\* view_docs of _track_ad_views
ViewDocs(user_id, product_ids, utcnow) ==
    IF product_ids = <<>> THEN <<>>
    ELSE [i \in 1..Len(product_ids) |->
             [user_id |-> user_id, product_id |-> product_ids[i], timestamp |-> utcnow]]

\* an update of the first product only
IncViewsFirst(col, product_ids) ==
    IF product_ids = <<>> THEN col
    ELSE [i \in 1..Len(col) |->
             IF col[i]._id = ObjectId(product_ids[1])
             THEN [col[i] EXCEPT !.views = @ + 1] ELSE col[i]]

\* products_col.update_one({"_id": ObjectId(product_id)}, {"$inc": {field: 1}})
\* for each of product_ids in turn
RECURSIVE IncViews(_, _)
IncViews(col, product_ids) ==
    IF product_ids = <<>> THEN col
    ELSE IncViews([i \in 1..Len(col) |->
                      IF col[i]._id = ObjectId(product_ids[1])
                      THEN [col[i] EXCEPT !.views = @ + 1] ELSE col[i]],
                  Tail(product_ids))

\* products_col.update_one({"_id": ObjectId(product_id)}, {"$inc": {"clicks": 1}})
IncClicks(col, product_id) ==
    [i \in 1..Len(col) |->
        IF col[i]._id = ObjectId(product_id)
        THEN [col[i] EXCEPT !.clicks = @ + 1] ELSE col[i]]

\* $lookup of ad_clicks with localField _id and foreignField product_id: the
\* stored product_id is a str, the _id an ObjectId
LookupClicks(product, clicks_log) ==
    {i \in 1..Len(clicks_log) : [str |-> clicks_log[i].product_id] = product._id}

\* the positions of the products that _get_default_ads's $match keeps
ApprovedPositions == {i \in 1..Len(products) : products[i].status = "approved"}

\* the outcomes of $sort by click_count, $limit limit * 2: sets of at most
\* limit * 2 positions holding no product with fewer clicks than one left out
\* (the order among equal counts is the store's)
DefaultPools(limit) ==
    {pool \in SUBSET ApprovedPositions :
        /\ Cardinality(pool) =
               (IF Cardinality(ApprovedPositions) < limit * 2
                THEN Cardinality(ApprovedPositions) ELSE limit * 2)
        /\ \A i \in pool, j \in ApprovedPositions \ pool :
               Cardinality(LookupClicks(products[i], ad_clicks))
                   >= Cardinality(LookupClicks(products[j], ad_clicks))}

\* the sequences without repetition of n elements of S
RECURSIVE Arrangements(_, _)
Arrangements(S, n) ==
    IF n = 0 \/ S = {} THEN {<<>>}
    ELSE UNION {{<<x>> \o rest : rest \in Arrangements(S \ {x}, n - 1)} : x \in S}

\* the shuffled pools, not cut to limit
DefaultSlatesUncut(limit) ==
    UNION {{IF a = <<>> THEN <<>>
            ELSE [i \in 1..Len(a) |->
                     [product_id |-> str(products[a[i]]._id), relevance_score |-> 0]] :
            a \in Arrangements(pool, Cardinality(pool))} : pool \in DefaultPools(limit)}

\* the slates _get_default_ads(limit) can return when its aggregate succeeds:
\* random.shuffle(products), then products[:limit]
DefaultSlates(limit) ==
    UNION {{IF a = <<>> THEN <<>>
            ELSE [i \in 1..Len(a) |->
                     [product_id |-> str(products[a[i]]._id), relevance_score |-> 0]] :
            a \in Arrangements(pool, IF limit < Cardinality(pool) THEN limit
                                     ELSE Cardinality(pool))} : pool \in DefaultPools(limit)}

(***************************************************************************)
(* The stored data the engine starts from                                  *)
(***************************************************************************)
Colombo == <<"C","o","l","o","m","b","o">>

NoCategories ==
    [fmt |-> "dict", categories |-> {}, category_scores |-> <<>>,
     categorized_at |-> <<>>, last_recategorized |-> <<>>, categorization_type |-> ""]

\* u1 has the dict that registration stores, u2 a legacy value: a plain list
\* of labels, or something that is neither a dict nor a list
InitialUsers(legacy) ==
    (ObjectId("u1") :> [age |-> 20, location |-> Colombo,
                        ai_categories |-> [NoCategories EXCEPT
                            !.categories = {"education_seeker"},
                            !.category_scores = <<[k |-> "education_seeker", v |-> 30]>>,
                            !.categorization_type = "registration"]])
    @@ (ObjectId("u2") :> [age |-> 0, location |-> <<>>,
                           ai_categories |-> [NoCategories EXCEPT
                               !.fmt = legacy,
                               !.categories = IF legacy = "list"
                                              THEN {"young_adult", "tech_enthusiast"}
                                              ELSE {}]])

LegacyShapes == {"list", "other"}

\* the user ids handed to the engine: two stored users, a well-formed id of
\* no stored user, and a string that is no ObjectId
UserIds == {"u1", "u2", "u9", "bad"}

\* item A and item B of the ranking example, an item with an age range, a
\* location list and stock, an item awaiting approval and one out of stock
InitialProducts(history_views, history_clicks) ==
    << [_id |-> ObjectId("pA"), status |-> "approved", stock |-> <<>>,
        target_categories |-> {"education_seeker"}, category |-> <<"b","o","o","k","s">>,
        age_range |-> <<>>, target_locations |-> <<{AllLocations}>>,
        created_at |-> <<0>>, views |-> history_views, clicks |-> history_clicks],
       [_id |-> ObjectId("pB"), status |-> "approved", stock |-> <<>>,
        target_categories |-> {}, category |-> <<"e","l","e","c","t","r","o","n","i","c","s">>,
        age_range |-> <<>>, target_locations |-> <<>>,
        created_at |-> <<0 - 60 * HoursPerDay>>, views |-> 0, clicks |-> 0],
       [_id |-> ObjectId("pC"), status |-> "approved", stock |-> <<5>>,
        target_categories |-> {"tech_enthusiast", "electronics_buyer"},
        category |-> <<"P","h","o","n","e","s">>,
        age_range |-> <<[min |-> <<18>>, max |-> <<>>]>>,
        target_locations |-> <<{Colombo}>>,
        created_at |-> <<0 - 10 * HoursPerDay>>, views |-> 0, clicks |-> 0],
       [_id |-> ObjectId("pD"), status |-> "pending", stock |-> <<>>,
        target_categories |-> {"education_seeker"}, category |-> <<"c","o","u","r","s","e","s">>,
        age_range |-> <<>>, target_locations |-> <<{AllLocations}>>,
        created_at |-> <<0>>, views |-> 0, clicks |-> 0],
       [_id |-> ObjectId("pE"), status |-> "approved", stock |-> <<0>>,
        target_categories |-> {"education_seeker"}, category |-> <<"b","o","o","k","s">>,
        age_range |-> <<>>, target_locations |-> <<{AllLocations}>>,
        created_at |-> <<0>>, views |-> 0, clicks |-> 0] >>

\* the stock of the last item: sold out, negative, in stock
StockLevels == {<<0>>, <<0 - 1>>, <<3>>}

\* the catalog with item A viewed 10 times and clicked 12 times, and the
\* last item at the given stock
CatalogWithStock(stock) ==
    [InitialProducts(10, 12) EXCEPT ![Len(InitialProducts(10, 12))].stock = stock]

\* n log entries about item A left by another user two days before time 0
History(n) ==
    IF n = 0 THEN <<>>
    ELSE [i \in 1..n |-> [user_id |-> "u0", product_id |-> "pA",
                          timestamp |-> 0 - 2 * HoursPerDay]]

\* item A is new, or has been viewed 10 times and clicked 12 times
Histories == {[views |-> 0, clicks |-> 0], [views |-> 10, clicks |-> 12]}

NoCall == [op |-> "none", raised |-> FALSE, returned |-> <<>>]

\* `shown` is what the callers of get_personalized_ads received on the
\* ranking path, one entry per returned item, where a specification keeps it
NoCalls == [ads |-> 0, clicks |-> 0, searches |-> 0, passes |-> 0, shown |-> <<>>]

(***************************************************************************)
(* Bounds and inputs                                                       *)
(***************************************************************************)
MaxSteps == 3
MaxClicks == 1

\* between two ad requests the clock advances by an hour or by 25 hours
TickSteps == {1, DiversityHours + 1}

\* between two searches it advances by a day or by the 30-day window
AgeSteps == {HoursPerDay, WindowDays * HoursPerDay}

LaptopQuery == <<"L","a","p","t","o","p"," ","p","h","o","n","e"," ","c","o","m","p","u","t","e","r">>
SchoolQuery == <<"S","c","h","o","o","l"," ","c","o","u","r","s","e"," ","s","t","u","d","y"," ","e","x","a","m"," ","b","o","o","k">>
JobQuery == <<"C","a","r","e","e","r"," ","j","o","b"," ","s","a","l","a","r","y">>
CareerQuery == <<"c","a","r","e","e","r"," ","j","o","b">>

\* the queries submitted, each with its category filter
SearchCalls ==
    { [user_id |-> "u1", query |-> JobQuery, category |-> <<>>],
      [user_id |-> "u1", query |-> SchoolQuery, category |-> <<"education">>],
      [user_id |-> "u2", query |-> LaptopQuery, category |-> <<>>],
      [user_id |-> "u9", query |-> LaptopQuery, category |-> <<>>],
      [user_id |-> "bad", query |-> JobQuery, category |-> <<>>] }

AdCalls ==
    { [user_id |-> "u1", limit |-> 1], [user_id |-> "u1", limit |-> 5],
      [user_id |-> "u2", limit |-> 5] }

DefaultCalls ==
    { [user_id |-> "u9", limit |-> 1, read_raised |-> FALSE],
      [user_id |-> "bad", limit |-> 5, read_raised |-> FALSE],
      [user_id |-> "u1", limit |-> 1, read_raised |-> TRUE] }

\* the clicks on search results: on an earlier search, on the first search of
\* the run, on an id of no search and on a string that is no id
ClickedSearches == {"s1", "s4", "s9", "bad"}
ClickedResults == {"r1", "r2"}

\* the calls that the log histories are made of
LoggedSearchCalls == {[user_id |-> "u1", query |-> JobQuery, category |-> <<>>]}
LoggedAdCalls == {[user_id |-> "u1", limit |-> 1]}

ClickUsers == {"u1"}
ClickedProducts == {"pA", "bad"}

(***************************************************************************)
(* Operations.  `last` is the outcome of the last call: the operation,     *)
(* whether it raised, and what it returned.                                *)
(***************************************************************************)
Returned(op, value) == [op |-> op, raised |-> FALSE, returned |-> value]
Raised(op) == [op |-> op, raised |-> TRUE, returned |-> <<>>]

\* time passes between two ad requests
Tick ==
    /\ steps < MaxSteps
    /\ \E d \in TickSteps : now' = now + d
    /\ steps' = steps + 1
    /\ UNCHANGED << users, search_history, search_patterns, products, ad_views,
                    ad_clicks, calls, last, regInput, regResult, procs >>

\* time passes between two searches
Age ==
    /\ steps < MaxSteps
    /\ \E d \in AgeSteps : now' = now + d
    /\ steps' = steps + 1
    /\ UNCHANGED << users, search_history, search_patterns, products, ad_views,
                    ad_clicks, calls, last, regInput, regResult, procs >>

\* search_doc of track_search
SearchDoc(user_id, input, utcnow) ==
    [user_id |-> user_id, query |-> lower(input.query), category |-> input.category,
     timestamp |-> utcnow, results_count |-> 0, clicked_result |-> <<>>]

\* SearchTracker.track_search(user_id, query, category): the insert, then
\* _update_search_patterns, then _recategorize_user, whose InvalidId is not
\* caught here; the search id returned is str(result.inserted_id)
TrackSearch(user_id, input) ==
    /\ steps < MaxSteps
    /\ steps' = steps + 1
    /\ LET log == Append(search_history, SearchDoc(user_id, input, now))
           col == _update_search_patterns(search_patterns, log, user_id, now)
       IN  /\ search_history' = log
           /\ search_patterns' = col
           /\ users' = _recategorize_user(users, col, user_id, now)
           /\ last' = IF RecategorizeOutcome(users, col, user_id) = "raised"
                      THEN Raised("track_search")
                      ELSE Returned("track_search", SearchIds[Len(log)])
    /\ calls' = [calls EXCEPT !.searches = @ + 1]
    /\ UNCHANGED << now, products, ad_views, ad_clicks, regInput, regResult, procs >>

\* the position in the log of the document that {"_id": ObjectId(search_id)}
\* matches, 0 when it matches none
FindSearch(log, search_id) ==
    IF \E i \in 1..Len(log) : SearchIds[i] = search_id
    THEN CHOOSE i \in 1..Len(log) : SearchIds[i] = search_id
    ELSE 0

\* a filter that matches every document
SetClickedAll(log, i, clicked_result) ==
    [j \in 1..Len(log) |-> [log[j] EXCEPT !.clicked_result = <<clicked_result>>]]

\* update_one(..., {"$set": {"clicked_result": clicked_result}}) on the i-th
\* document of the log
SetClicked(log, i, clicked_result) ==
    IF i = 0 THEN log ELSE [log EXCEPT ![i].clicked_result = <<clicked_result>>]

\* SearchTracker.track_click(search_id, clicked_result): an InvalidId raised
\* by ObjectId(search_id) is caught; the call returns None
TrackClick(search_id, clicked_result) ==
    /\ search_history' =
           IF IsValidObjectId(search_id)
           THEN SetClicked(search_history, FindSearch(search_history, search_id),
                           clicked_result)
           ELSE search_history
    /\ last' = Returned("track_click", <<>>)
    /\ UNCHANGED << now, steps, users, search_patterns, products, ad_views,
                    ad_clicks, calls, regInput, regResult, procs >>

\* SearchTracker._update_search_patterns(user_id) run on its own
UpdateSearchPatterns(user_id) ==
    /\ steps < MaxSteps
    /\ steps' = steps + 1
    /\ search_patterns' =
           _update_search_patterns(search_patterns, search_history, user_id, now)
    /\ last' = Returned("_update_search_patterns", <<>>)
    /\ UNCHANGED << now, users, search_history, products, ad_views, ad_clicks,
                    calls, regInput, regResult, procs >>

\* AIUserCategorizer.recategorize_based_on_search(user_id): it returns None
\* for no user, else the stored or the updated ai_categories
RecategorizeBasedOnSearch(user_id) ==
    /\ steps < MaxSteps
    /\ steps' = steps + 1
    /\ users' = recategorize_based_on_search(users, search_history, user_id, now)
    /\ last' = LET outcome == SearchRecategorizeOutcome(users, search_history, user_id)
               IN  IF outcome = "raised" THEN Raised("recategorize_based_on_search")
                   ELSE IF outcome = "no_user"
                        THEN Returned("recategorize_based_on_search", <<>>)
                        ELSE Returned("recategorize_based_on_search",
                                      <<users'[ObjectId(user_id)].ai_categories>>)
    /\ calls' = [calls EXCEPT !.passes = @ + 1]
    /\ UNCHANGED << now, search_history, search_patterns, products, ad_views,
                    ad_clicks, regInput, regResult, procs >>

\* whether get_personalized_ads(user_id, ...) reaches the ranking when no
\* read raises: the id parses and the user is stored
Resolves(user_id) == IsValidObjectId(user_id) /\ UserExists(users, user_id)

\* what _track_ad_views(user_id, product_ids) can leave in the view log and
\* the catalog; it swallows what its writes raise.  "ok": every write went
\* through; "insert_failed": insert_many raised; "update_failed": insert_many
\* went through and the update_one of the k-th product raised
Tracked(user_id, product_ids, outcome, k) ==
    IF product_ids = <<>> \/ outcome = "insert_failed"
    THEN [views |-> ad_views, products |-> products]
    ELSE [views |-> ad_views \o ViewDocs(user_id, product_ids, now),
          products |-> IF outcome = "ok" THEN IncViews(products, product_ids)
                       ELSE IncViews(products, Take(product_ids, k - 1))]

TrackingOutcomes == {"ok", "insert_failed", "update_failed"}

\* the items of a returned slate with the time of the call and, as `base`,
\* the score of the item before the penalty for repetition
ShownDocs(user_id, top_ads) ==
    IF top_ads = <<>> THEN <<>>
    ELSE [n \in 1..Len(top_ads) |->
            [user_id |-> user_id, product_id |-> top_ads[n].product_id,
             timestamp |-> now,
             base |-> top_ads[n].relevance_score
                        + PenaltyTerm(CountRecentViews(ad_views, user_id,
                              top_ads[n].product_id, now - DiversityHours))]]

\* the ranking path of get_personalized_ads: the slate is scored, cut and
\* returned, and _track_ad_views ends in one of `outcomes`
RankAndTrack(user_id, limit, outcomes) ==
    /\ steps < MaxSteps
    /\ steps' = steps + 1
    /\ Resolves(user_id)
    /\ \E top_ads \in {TopAds(user_id, limit)} :
           /\ last' = Returned("get_personalized_ads", top_ads)
           /\ \E outcome \in outcomes :
                  /\ outcome # "ok" => top_ads # <<>>
                  /\ \E k \in 1..(IF outcome = "update_failed" THEN Len(top_ads) ELSE 1) :
                      \E tracked \in {Tracked(user_id, SlateIds(top_ads), outcome, k)} :
                          /\ ad_views' = tracked.views
                          /\ products' = tracked.products
    /\ UNCHANGED << now, users, search_history, search_patterns, ad_clicks,
                    regInput, regResult, procs >>

\* AdMatcher.get_personalized_ads(user_id, limit) on the ranking path, with
\* _track_ad_views ending in one of `outcomes`
GetPersonalizedAds(user_id, limit, outcomes) ==
    /\ RankAndTrack(user_id, limit, outcomes)
    /\ calls' = [calls EXCEPT !.ads = @ + 1]

\* the same call, with what the caller received kept in `shown`
GetPersonalizedAdsShown(user_id, limit, outcomes) ==
    /\ RankAndTrack(user_id, limit, outcomes)
    /\ calls' = [calls EXCEPT !.ads = @ + 1,
                              !.shown = @ \o ShownDocs(user_id, last'.returned)]

\* AdMatcher.get_personalized_ads(user_id, limit) on the fallback path: the id
\* does not parse, no user is stored under it, or a read of the ranking path
\* raised (read_raised); then _get_default_ads(limit), which returns [] when
\* its own aggregate raises
GetDefaultAds(user_id, limit, read_raised) ==
    /\ Resolves(user_id) => read_raised
    /\ UNCHANGED << now, steps, users, search_history, search_patterns, products,
                    ad_views, ad_clicks, calls, regInput, regResult, procs >>
    /\ \E slate \in DefaultSlates(limit) \cup {<<>>} :
           last' = Returned("get_personalized_ads", slate)

\* AdMatcher.track_ad_click(user_id, product_id): the insert, then the
\* update_one on ObjectId(product_id); whatever raises is caught and the call
\* returns False.  "ok": nothing raised but, for a malformed product_id,
\* ObjectId; "insert_failed": insert_one raised; "update_failed": update_one
\* raised
TrackAdClick(user_id, product_id, outcome) ==
    /\ calls.clicks < MaxClicks
    /\ ad_clicks' = IF outcome = "insert_failed" THEN ad_clicks
                    ELSE Append(ad_clicks, [user_id |-> user_id, product_id |-> product_id,
                                            source |-> "sidebar", timestamp |-> now])
    /\ products' = IF outcome = "ok" /\ IsValidObjectId(product_id)
                   THEN IncClicks(products, product_id) ELSE products
    /\ last' = Returned("track_ad_click", outcome = "ok" /\ IsValidObjectId(product_id))
    /\ calls' = [calls EXCEPT !.clicks = @ + 1]
    /\ UNCHANGED << now, steps, users, search_history, search_patterns, ad_views,
                    regInput, regResult, procs >>

\* datetime.isoformat(): the text of a timestamp
isoformat(t) == [iso |-> t]

\* the limits of the history reads, and the users read: one with searches
\* and a profile, one with neither
HistoryLimits == {1, 20}
ReadUsers == {"u1", "u9"}

\* SearchTracker.get_user_search_history(user_id, limit): the newest limit
\* searches of the user, each as a dict of five fields
GetUserSearchHistory ==
    \E user_id \in ReadUsers, limit \in HistoryLimits :
        /\ steps < MaxSteps
        /\ steps' = steps + 1
        /\ LET searches == Take(FindSearches(search_history, Len(search_history),
                                             user_id, <<>>), limit)
           IN  last' = Returned("get_user_search_history",
                           [n \in 1..Len(searches) |->
                               [query |-> searches[n].query,
                                category |-> searches[n].category,
                                timestamp |-> isoformat(searches[n].timestamp),
                                results_count |-> searches[n].results_count,
                                clicked_result |-> searches[n].clicked_result]])
        /\ UNCHANGED << now, users, search_history, search_patterns, products,
                        ad_views, ad_clicks, calls, regInput, regResult, procs >>

\* a read that recomputes the profile it reads
RecomputedOnRead(col, log, user_id, utcnow) ==
    _update_search_patterns(col, log, user_id, utcnow)

\* the user_search_patterns collection after get_user_search_patterns: its
\* find_one is the only store operation and writes nothing
AfterPatternsRead(col, log, user_id, utcnow) == col

\* SearchTracker.get_user_search_patterns(user_id): None, or the profile's
\* fields without the user_id
GetUserSearchPatterns ==
    \E user_id \in ReadUsers :
        /\ steps < MaxSteps
        /\ steps' = steps + 1
        /\ LET patterns == FindPatterns(search_patterns, user_id)
           IN  last' = Returned("get_user_search_patterns",
                           IF patterns = <<>> THEN <<>>
                           ELSE <<[search_count |-> patterns[1].search_count,
                                   top_keywords |-> patterns[1].top_keywords,
                                   top_categories |-> patterns[1].top_categories,
                                   interest_scores |-> patterns[1].interest_scores,
                                   last_updated |-> isoformat(patterns[1].last_updated),
                                   search_frequency |-> patterns[1].search_frequency]>>)
        /\ search_patterns' = AfterPatternsRead(search_patterns, search_history,
                                                user_id, now)
        /\ UNCHANGED << now, users, search_history, products, ad_views, ad_clicks,
                        calls, regInput, regResult, procs >>

\* round(n / d, 0) for d > 0: the nearest integer, the even one of two
RoundHalfEven(n, d) ==
    LET q == n \div d
        r == n % d
    IN  IF 2 * r > d \/ (2 * r = d /\ q % 2 = 1) THEN q + 1 ELSE q

\* a rate that counts no view as one view
PercentCtrOfOne(clicks, views) ==
    RoundHalfEven(clicks * 10000, IF views > 0 THEN views ELSE 1)

\* round((clicks / views * 100) if views > 0 else 0, 2), in hundredths
PercentCtr(clicks, views) ==
    IF views > 0 THEN RoundHalfEven(clicks * 10000, views) ELSE 0

\* the products whose performance is read: item A and item B
PerformanceProducts == {"pA", "pB"}

\* AdMatcher.get_ad_performance(product_id): counts over the two logs; a
\* read that raises is caught and the call returns None
AdPerformance(product_id, read_raised) ==
    /\ steps < MaxSteps
    /\ steps' = steps + 1
    /\ LET clicks == CountProduct(ad_clicks, product_id)
           views  == CountProduct(ad_views, product_id)
       IN  last' = Returned("get_ad_performance",
                       IF read_raised THEN <<>>
                       ELSE <<[product_id |-> product_id,
                               total_views |-> views,
                               total_clicks |-> clicks,
                               unique_clickers |->
                                   Cardinality({ad_clicks[n].user_id : n \in
                                       {m \in 1..Len(ad_clicks) :
                                           ad_clicks[m].product_id = product_id}}),
                               ctr |-> PercentCtr(clicks, views),
                               recent_clicks_7d |->
                                   Cardinality({n \in 1..Len(ad_clicks) :
                                       /\ ad_clicks[n].product_id = product_id
                                       /\ ad_clicks[n].timestamp
                                              >= now - NewDays * HoursPerDay})]>>)
    /\ UNCHANGED << now, users, search_history, search_patterns, products, ad_views,
                    ad_clicks, calls, regInput, regResult, procs >>

\* the positions that the pipeline of get_top_performing_ads keeps: approved,
\* and at least 10 documents of ad_views joined on product_id = _id
EnoughData ==
    {i \in ApprovedPositions :
        Cardinality(LookupClicks(products[i], ad_views)) >= MinViewsForCtr}

\* the results of $sort by ctr descending and $limit: the order among equal
\* rates is the store's
TopPerforming(limit) ==
    LET clicks(i) == Cardinality(LookupClicks(products[i], ad_clicks))
        views(i)  == Cardinality(LookupClicks(products[i], ad_views))
    IN  {a \in Arrangements(EnoughData, IF limit < Cardinality(EnoughData) THEN limit
                                        ELSE Cardinality(EnoughData)) :
            /\ \A m, n \in 1..Len(a) :
                   m < n => clicks(a[m]) * views(a[n]) >= clicks(a[n]) * views(a[m])
            /\ \A n \in 1..Len(a), j \in EnoughData \ {a[m] : m \in 1..Len(a)} :
                   clicks(a[n]) * views(j) >= clicks(j) * views(a[n])}

\* AdMatcher.get_top_performing_ads(limit): the aggregate's rows as dicts; an
\* aggregate that raises is caught and the call returns []
TopPerformingAds(limit, read_raised) ==
    /\ steps < MaxSteps
    /\ steps' = steps + 1
    /\ \E a \in IF read_raised THEN {<<>>} ELSE TopPerforming(limit) :
           last' = Returned("get_top_performing_ads",
                       [n \in 1..Len(a) |->
                           [product_id |-> str(products[a[n]]._id),
                            views |-> Cardinality(LookupClicks(products[a[n]], ad_views)),
                            clicks |-> Cardinality(LookupClicks(products[a[n]], ad_clicks)),
                            ctr |-> PercentCtr(
                                Cardinality(LookupClicks(products[a[n]], ad_clicks)),
                                Cardinality(LookupClicks(products[a[n]], ad_views)))]])
    /\ UNCHANGED << now, users, search_history, search_patterns, products, ad_views,
                    ad_clicks, calls, regInput, regResult, procs >>

(***************************************************************************)
(* Calls that run concurrently.  Each store operation of a call is a step  *)
(* of its own; procs[p] holds the position of call p and what it has read. *)
(***************************************************************************)
\* two track_search calls and a recategorize_based_on_search call for u1
RaceCalls ==
    ("t1" :> [op |-> "track_search", user_id |-> "u1",
              query |-> LaptopQuery, category |-> <<>>])
    @@ ("t2" :> [op |-> "track_search", user_id |-> "u1",
                 query |-> JobQuery, category |-> <<>>])
    @@ ("r" :> [op |-> "recategorize_based_on_search", user_id |-> "u1",
                query |-> <<>>, category |-> <<>>])

\* a call before its first store operation
Started(call) ==
    [pc |-> IF call.op = "track_search" THEN "insert" ELSE "user",
     searches |-> <<>>, patterns |-> <<>>, user |-> <<>>]

\* track_search: search_history_col.insert_one(search_doc)
InsertSearch(p) ==
    /\ procs[p].pc = "insert"
    /\ search_history' =
           Append(search_history, SearchDoc(RaceCalls[p].user_id, RaceCalls[p], now))
    /\ procs' = [procs EXCEPT ![p].pc = "find"]
    /\ UNCHANGED << now, steps, users, search_patterns, products, ad_views,
                    ad_clicks, calls, last, regInput, regResult >>

\* _update_search_patterns: searches = list(search_history_col.find(...)),
\* and the return when there are none
ReadSearches(p) ==
    /\ procs[p].pc = "find"
    /\ LET searches == FindSearches(search_history, Len(search_history),
                                    RaceCalls[p].user_id,
                                    <<now - WindowDays * HoursPerDay>>)
       IN  procs' = [procs EXCEPT ![p].searches = searches,
                                  ![p].pc = IF searches = <<>> THEN "patterns"
                                            ELSE "upsert"]
    /\ UNCHANGED << now, steps, users, search_history, search_patterns, products,
                    ad_views, ad_clicks, calls, last, regInput, regResult >>

\* _update_search_patterns: the upsert of the document computed from the
\* searches read
UpsertPatterns(p) ==
    /\ procs[p].pc = "upsert"
    /\ search_patterns' =
           Upsert(search_patterns, RaceCalls[p].user_id,
                  PatternsDoc(RaceCalls[p].user_id, procs[p].searches, now))
    /\ procs' = [procs EXCEPT ![p].pc = "patterns"]
    /\ UNCHANGED << now, steps, users, search_history, products, ad_views,
                    ad_clicks, calls, last, regInput, regResult >>

\* _recategorize_user: patterns = search_patterns_col.find_one(...), and the
\* return when there is none
ReadPatterns(p) ==
    /\ procs[p].pc = "patterns"
    /\ LET patterns == FindPatterns(search_patterns, RaceCalls[p].user_id)
       IN  procs' = [procs EXCEPT ![p].patterns = patterns,
                                  ![p].pc = IF patterns = <<>> THEN "done" ELSE "user"]
    /\ UNCHANGED << now, steps, users, search_history, search_patterns, products,
                    ad_views, ad_clicks, calls, last, regInput, regResult >>

\* user = users_col.find_one({"_id": ObjectId(user_id)}) of either pass, and
\* the end of the call when ObjectId raises or no user is found
ReadUser(p) ==
    /\ procs[p].pc = "user"
    /\ LET user_id == RaceCalls[p].user_id
       IN  procs' =
               IF IsValidObjectId(user_id) /\ UserExists(users, user_id)
               THEN [procs EXCEPT ![p].user = <<users[ObjectId(user_id)].ai_categories>>,
                                  ![p].pc = IF RaceCalls[p].op = "track_search"
                                            THEN "write" ELSE "last_searches"]
               ELSE [procs EXCEPT ![p].pc = "done"]
    /\ UNCHANGED << now, steps, users, search_history, search_patterns, products,
                    ad_views, ad_clicks, calls, last, regInput, regResult >>

\* recategorize_based_on_search: the last 50 searches, and the return when
\* there are none
ReadLastSearches(p) ==
    /\ procs[p].pc = "last_searches"
    /\ LET searches == LastSearches(search_history, RaceCalls[p].user_id)
       IN  procs' = [procs EXCEPT ![p].searches = searches,
                                  ![p].pc = IF searches = <<>> THEN "done" ELSE "write"]
    /\ UNCHANGED << now, steps, users, search_history, search_patterns, products,
                    ad_views, ad_clicks, calls, last, regInput, regResult >>

\* users_col.update_one(..., {"$set": {"ai_categories": ...}}) of either
\* pass, with the value computed from what the call has read;
\* recategorize_based_on_search raises before it on a value that is no dict
WriteUser(p) ==
    /\ procs[p].pc = "write"
    /\ LET ai == procs[p].user[1]
           o  == ObjectId(RaceCalls[p].user_id)
       IN  users' =
               IF RaceCalls[p].op = "track_search"
               THEN [users EXCEPT ![o].ai_categories =
                        RecategorizedValue(ai, procs[p].patterns[1], now)]
               ELSE IF ai.fmt = "dict"
                    THEN [users EXCEPT ![o].ai_categories =
                             UpdatedCategorization(ai, procs[p].searches, now)]
                    ELSE users
    /\ procs' = [procs EXCEPT ![p].pc = "done"]
    /\ UNCHANGED << now, steps, search_history, search_patterns, products,
                    ad_views, ad_clicks, calls, last, regInput, regResult >>

(***************************************************************************)
(* Ad requests that run concurrently.  procs[p] holds the position of      *)
(* request p, the catalog position it scans, its scored_products and its   *)
(* top_ads.                                                                *)
(***************************************************************************)
\* two get_personalized_ads calls for u1
AdRaceCalls ==
    ("a1" :> [user_id |-> "u1", limit |-> 5]) @@ ("a2" :> [user_id |-> "u1", limit |-> 1])

\* users_col.find_one({"_id": ObjectId(user_id)}): the request goes on to
\* the catalog when the user is found
FindUser(p) ==
    /\ procs[p].pc = "user"
    /\ Resolves(AdRaceCalls[p].user_id)
    /\ procs' = [procs EXCEPT ![p].pc = "scan", ![p].i = 1]
    /\ UNCHANGED << now, steps, users, search_history, search_patterns, products,
                    ad_views, ad_clicks, calls, last, regInput, regResult >>

\* one turn of `for product in active_products`: the counts of the view and
\* click logs for the product, and the append when its score is above 0;
\* after the last product the sort and the cut to limit
ScoreProduct(p) ==
    /\ procs[p].pc = "scan"
    /\ LET product == products[procs[p].i]
           score   == ScoreFor(product, AdRaceCalls[p].user_id, ad_views, ad_clicks, now)
           scored  == IF IsActive(product) /\ Eligible(score)
                      THEN Append(procs[p].scored,
                                  [product_id |-> str(product._id),
                                   relevance_score |-> score])
                      ELSE procs[p].scored
       IN  procs' = IF procs[p].i < Len(products)
                    THEN [procs EXCEPT ![p].scored = scored, ![p].i = @ + 1]
                    ELSE [procs EXCEPT ![p].scored = scored,
                                       ![p].top_ads = Slice(SortByScoreDesc(scored),
                                                            AdRaceCalls[p].limit),
                                       ![p].pc = "insert"]
    /\ UNCHANGED << now, steps, users, search_history, search_patterns, products,
                    ad_views, ad_clicks, calls, last, regInput, regResult >>

\* _track_ad_views: ad_views_col.insert_many(view_docs) when there are any
InsertViews(p) ==
    /\ procs[p].pc = "insert"
    /\ ad_views' = ad_views \o ViewDocs(AdRaceCalls[p].user_id,
                                         SlateIds(procs[p].top_ads), now)
    /\ procs' = [procs EXCEPT ![p].pc = IF procs[p].top_ads = <<>> THEN "done" ELSE "inc",
                              ![p].i = 1]
    /\ UNCHANGED << now, steps, users, search_history, search_patterns, products,
                    ad_clicks, calls, last, regInput, regResult >>

\* _track_ad_views: one update_one(..., {"$inc": {"views": 1}}) of the loop
IncView(p) ==
    /\ procs[p].pc = "inc"
    /\ products' = IncViews(products, <<procs[p].top_ads[procs[p].i].product_id>>)
    /\ procs' = IF procs[p].i < Len(procs[p].top_ads)
                THEN [procs EXCEPT ![p].i = @ + 1]
                ELSE [procs EXCEPT ![p].pc = "done"]
    /\ UNCHANGED << now, steps, users, search_history, search_patterns, ad_views,
                    ad_clicks, calls, last, regInput, regResult >>

(***************************************************************************)
(* Registration inputs                                                     *)
(***************************************************************************)
RegAges == {0, 20, 24, 25, 30, 35, 36, 45, 46, 60, 61}

RegJobs ==
    { <<>>,
      <<"S","o","f","t","w","a","r","e"," ","E","n","g","i","n","e","e","r">>,
      <<"T","e","a","c","h","e","r">>,
      <<"G","o","v","e","r","n","m","e","n","t"," ","O","f","f","i","c","e","r">>,
      <<"B","a","n","k"," ","M","a","n","a","g","e","r">>,
      <<"B","u","s","i","n","e","s","s"," ","O","w","n","e","r">>,
      <<"S","t","u","d","e","n","t">>,
      <<"F","a","r","m","e","r">> }
RegLocations ==
    { <<>>,
      <<"C","o","l","o","m","b","o">>,
      <<"G","a","l","l","e">> }
RegInterests ==
    { <<>>,
      << <<"t","e","c","h","n","o","l","o","g","y">> >>,
      << <<"E","d","u","c","a","t","i","o","n">>, <<"j","o","b","s">> >>,
      << <<"p","r","o","p","e","r","t","y">>, <<"c","a","r","s">>, <<"h","e","a","l","t","h">> >> }


RegTimes == {0, HoursPerDay}

RegInputs ==
    [age : RegAges, job : RegJobs, location : RegLocations, interests : RegInterests]

NoRegInput == [age |-> 0, job |-> <<>>, location |-> <<>>, interests |-> <<>>]

\* the registration handler's call of categorize_user_on_registration
Categorize ==
    /\ regResult = <<>>
    /\ regInput \in RegInputs
    /\ regResult' = <<categorize_user_on_registration(regInput, now)>>
    /\ last' = Returned("categorize_user_on_registration", regResult')
    /\ UNCHANGED << now, steps, users, search_history, search_patterns, products,
                    ad_views, ad_clicks, calls, regInput, procs >>

(***************************************************************************)
(* Specifications                                                          *)
(***************************************************************************)
\* the searches tracked before time 0: u1 searched for jobs twice, u2 for a
\* laptop once
EarlierSearches ==
    << [user_id |-> "u1", query |-> CareerQuery, category |-> <<>>,
        timestamp |-> 0 - 3 * HoursPerDay, results_count |-> 0, clicked_result |-> <<>>],
       [user_id |-> "u1", query |-> CareerQuery, category |-> <<>>,
        timestamp |-> 0 - 2 * HoursPerDay, results_count |-> 0, clicked_result |-> <<>>],
       [user_id |-> "u2", query |-> lower(LaptopQuery), category |-> <<>>,
        timestamp |-> 0 - HoursPerDay, results_count |-> 0, clicked_result |-> <<>>] >>

RECURSIVE Replay(_, _, _)
\* the profiles and users that track_search has left after the first n of
\* the earlier searches: st is [patterns, users]
Replay(log, n, st) ==
    IF n = 0 THEN st
    ELSE LET before == Replay(log, n - 1, st)
             col == _update_search_patterns(before.patterns, SubSeq(log, 1, n),
                                            log[n].user_id, log[n].timestamp)
         IN  [patterns |-> col,
              users |-> _recategorize_user(before.users, col, log[n].user_id,
                                           log[n].timestamp)]

\* the stored data at time 0, before any call of the run
InitStore ==
    /\ now = 0
    /\ steps = 0
    /\ search_history = EarlierSearches
    /\ calls = NoCalls
    /\ last = NoCall
    /\ regInput = NoRegInput
    /\ regResult = <<>>
    /\ procs = <<>>

\* the search side: tracked searches, profile recomputes, recategorization
InitSearch ==
    /\ InitStore
    /\ \E legacy \in LegacyShapes :
        LET st == Replay(EarlierSearches, Len(EarlierSearches),
                         [patterns |-> <<>>, users |-> InitialUsers(legacy)])
        IN  users = st.users /\ search_patterns = st.patterns
    /\ products = InitialProducts(0, 0)
    /\ ad_views = <<>>
    /\ ad_clicks = <<>>

Search == \E call \in SearchCalls : TrackSearch(call.user_id, call)

Recompute == \E user_id \in UserIds : UpdateSearchPatterns(user_id)

Recategorize == \E user_id \in UserIds : RecategorizeBasedOnSearch(user_id)

NextSearch == Age \/ Search \/ Recompute \/ Recategorize

SpecSearch == InitSearch /\ [][NextSearch]_vars

\* the ad side: ranked slates and their view tracking, for item A with and
\* without a history of views and clicks
InitAds ==
    /\ InitStore
    /\ LET st == Replay(EarlierSearches, Len(EarlierSearches),
                        [patterns |-> <<>>, users |-> InitialUsers("list")])
       IN  users = st.users /\ search_patterns = st.patterns
    /\ \E h \in Histories :
        /\ products = InitialProducts(h.views, h.clicks)
        /\ ad_views = History(h.views)
        /\ ad_clicks = History(h.clicks)

RankedAds ==
    \E call \in AdCalls :
        GetPersonalizedAds(call.user_id, call.limit, TrackingOutcomes)

NextAds == Tick \/ RankedAds

SpecAds == InitAds /\ [][NextAds]_vars

\* ad requests as time passes, with the returned items kept
ShownAds ==
    \E call \in AdCalls :
        GetPersonalizedAdsShown(call.user_id, call.limit, TrackingOutcomes)

NextExposure == Tick \/ ShownAds

SpecExposure == InitAds /\ [][NextExposure]_vars

\* the ad side over catalogs that differ in the stock of the last item
InitCatalog ==
    /\ InitStore
    /\ LET st == Replay(EarlierSearches, Len(EarlierSearches),
                        [patterns |-> <<>>, users |-> InitialUsers("list")])
       IN  users = st.users /\ search_patterns = st.patterns
    /\ \E stock \in StockLevels : products = CatalogWithStock(stock)
    /\ ad_views = History(10)
    /\ ad_clicks = History(12)

SpecCatalog == InitCatalog /\ [][NextAds]_vars

\* the fallback of the ad side: default slates, and ranked slates whose views
\* the store fails to take
DefaultAds ==
    \E call \in DefaultCalls :
        GetDefaultAds(call.user_id, call.limit, call.read_raised)

UntrackedAds ==
    \E call \in AdCalls : GetPersonalizedAds(call.user_id, call.limit, {"insert_failed"})

NextFallback == DefaultAds \/ UntrackedAds

SpecFallback == InitAds /\ [][NextFallback]_vars

AdClick ==
    \E user_id \in ClickUsers, product_id \in ClickedProducts,
       outcome \in TrackingOutcomes : TrackAdClick(user_id, product_id, outcome)

\* clicks, and the default slates that are drawn by click count
NextClicks == AdClick \/ DefaultAds

SpecClicks == InitAds /\ [][NextClicks]_vars

\* the logs: searches and the clicks on their results, ranked slates and the
\* clicks on their ads
LoggedSearch == \E call \in LoggedSearchCalls : TrackSearch(call.user_id, call)

Click ==
    \E search_id \in ClickedSearches, clicked_result \in ClickedResults :
        TrackClick(search_id, clicked_result)

LoggedAds ==
    \E call \in LoggedAdCalls :
        GetPersonalizedAds(call.user_id, call.limit, TrackingOutcomes)

NextLogs == LoggedSearch \/ Click \/ LoggedAds \/ AdClick

SpecLogs == InitAds /\ [][NextLogs]_vars

\* concurrent calls for u1, from the stored data of time 0
InitRace ==
    /\ now = 0
    /\ steps = 0
    /\ search_history = EarlierSearches
    /\ LET st == Replay(EarlierSearches, Len(EarlierSearches),
                        [patterns |-> <<>>, users |-> InitialUsers("list")])
       IN  users = st.users /\ search_patterns = st.patterns
    /\ products = InitialProducts(0, 0)
    /\ ad_views = <<>>
    /\ ad_clicks = <<>>
    /\ calls = NoCalls
    /\ last = NoCall
    /\ regInput = NoRegInput
    /\ regResult = <<>>
    /\ procs = [p \in DOMAIN RaceCalls |-> Started(RaceCalls[p])]

NextRace ==
    \E p \in DOMAIN RaceCalls :
        \/ InsertSearch(p)
        \/ ReadSearches(p)
        \/ UpsertPatterns(p)
        \/ ReadPatterns(p)
        \/ ReadUser(p)
        \/ ReadLastSearches(p)
        \/ WriteUser(p)

SpecRace == InitRace /\ [][NextRace]_vars

\* the writes of the logs with the reads of the search side
FrameClick == \E search_id \in {"s4", "bad"} : TrackClick(search_id, "r1")

FrameAds == \E call \in LoggedAdCalls : GetPersonalizedAds(call.user_id, call.limit, {"ok"})

NextFrame ==
    LoggedSearch \/ FrameClick \/ FrameAds \/ AdClick
        \/ GetUserSearchHistory \/ GetUserSearchPatterns

SpecFrame == InitAds /\ [][NextFrame]_vars

\* the reads of the performance of ads, between ad requests and clicks
GetAdPerformance ==
    \E product_id \in PerformanceProducts, read_raised \in BOOLEAN :
        AdPerformance(product_id, read_raised)

GetTopPerformingAds ==
    \E limit \in {1, 10}, read_raised \in BOOLEAN : TopPerformingAds(limit, read_raised)

NextPerformance == FrameAds \/ AdClick \/ GetAdPerformance \/ GetTopPerformingAds

SpecPerformance == InitAds /\ [][NextPerformance]_vars

\* two ad requests of u1 whose store operations interleave, for item A with
\* and without a history
InitAdRace ==
    /\ now = 0
    /\ steps = 0
    /\ search_history = EarlierSearches
    /\ LET st == Replay(EarlierSearches, Len(EarlierSearches),
                        [patterns |-> <<>>, users |-> InitialUsers("list")])
       IN  users = st.users /\ search_patterns = st.patterns
    /\ \E h \in Histories :
        /\ products = InitialProducts(h.views, h.clicks)
        /\ ad_views = History(h.views)
        /\ ad_clicks = History(h.clicks)
    /\ calls = NoCalls
    /\ last = NoCall
    /\ regInput = NoRegInput
    /\ regResult = <<>>
    /\ procs = [p \in DOMAIN AdRaceCalls |->
                   [pc |-> "user", i |-> 0, scored |-> <<>>, top_ads |-> <<>>]]

NextAdRace ==
    \E p \in DOMAIN AdRaceCalls :
        \/ FindUser(p)
        \/ ScoreProduct(p)
        \/ InsertViews(p)
        \/ IncView(p)

SpecAdRace == InitAdRace /\ [][NextAdRace]_vars

\* registration: the categorizer applied to one registration form
InitReg ==
    /\ now \in RegTimes
    /\ steps = 0
    /\ users = InitialUsers("list")
    /\ search_history = <<>>
    /\ search_patterns = <<>>
    /\ products = InitialProducts(0, 0)
    /\ ad_views = <<>>
    /\ ad_clicks = <<>>
    /\ calls = NoCalls
    /\ last = NoCall
    /\ regInput \in RegInputs
    /\ regResult = <<>>
    /\ procs = <<>>

NextReg == Categorize

SpecReg == InitReg /\ [][NextReg]_vars
(***************************************************************************)
(* Properties of recategorization                                          *)
(***************************************************************************)
\* the labels stored on the user held under object id o
LabelsOf(ucol, o) == StoredCategories(ucol[o].ai_categories)

\* C1: whatever pass runs (track_search with its _recategorize_user, or
\* recategorize_based_on_search), every label stored on a user before the
\* step is still stored on that user after it: no label is ever removed
LabelsOnlyGrow ==
    [][\A o \in DOMAIN users : LabelsOf(users, o) \subseteq LabelsOf(users', o)]_vars

\* C1 witness: both kinds of pass have run for u1 and have added labels
\* (job_seeker by _recategorize_user, vehicle_buyer by
\* recategorize_based_on_search) next to the label u1 started with
LabelsGrown ==
    /\ calls.searches >= 1
    /\ calls.passes >= 1
    /\ {"education_seeker", "job_seeker", "vehicle_buyer"}
           \subseteq LabelsOf(users, ObjectId("u1"))

(***************************************************************************)
(* Properties of ranked slates                                             *)
(***************************************************************************)
\* the users get_personalized_ads ranks for
RankedUsers == {user_id \in UserIds : Resolves(user_id)}

\* the positions in the catalog of the candidates of a ranking
Candidates == {i \in 1..Len(products) : IsActive(products[i])}

\* the score of the i-th product for user_id in the current state
ScoreNow(i, user_id) == ScoreFor(products[i], user_id, ad_views, ad_clicks, now)

\* its score before the floor
RawScoreNow(i, user_id) == RawScoreFor(products[i], user_id, ad_views, ad_clicks, now)

\* the product ids of a slate, as a set
SlateSet(slate) == {slate[j].product_id : j \in 1..Len(slate)}

\* C2: every entry of a slate returned by get_personalized_ads has a
\* relevance_score of at least 0, and a product whose score is negative
\* before the floor gets the score 0 from _calculate_relevance_score
ScoreFloor ==
    /\ last.op = "get_personalized_ads" =>
           \A j \in 1..Len(last.returned) : last.returned[j].relevance_score >= 0
    /\ \A user_id \in RankedUsers, i \in 1..Len(products) :
           RawScoreNow(i, user_id) < 0 => ScoreNow(i, user_id) = 0

\* C2 witness: a slate has been returned and the repetition penalty has
\* brought the score before the floor of a candidate below zero
NegativeBeforeFloor ==
    /\ last.op = "get_personalized_ads"
    /\ last.returned # <<>>
    /\ \E user_id \in RankedUsers, i \in Candidates : RawScoreNow(i, user_id) < 0

\* the ranked calls of the run, as steps
RankedCall(user_id, limit) == GetPersonalizedAds(user_id, limit, TrackingOutcomes)

\* C3, as the spec states it: called with a limit at least as large as the
\* number of candidates, get_personalized_ads returns every candidate, the
\* zero-score ones included
ZeroScoreReturned ==
    [][\A call \in AdCalls :
           RankedCall(call.user_id, call.limit) /\ call.limit >= Cardinality(Candidates)
               => SlateSet(last'.returned) = {str(products[i]._id) : i \in Candidates}]_vars

\* C3, amended: a candidate whose score is 0 is left out of the slate; called
\* with a limit at least as large as the number of candidates,
\* get_personalized_ads returns exactly the candidates whose score is
\* positive
ZeroScoreLeftOut ==
    [][\A call \in AdCalls :
           RankedCall(call.user_id, call.limit) =>
               /\ \A i \in Candidates :
                      ScoreNow(i, call.user_id) = 0
                          => str(products[i]._id) \notin SlateSet(last'.returned)
               /\ call.limit >= Cardinality(Candidates) =>
                      SlateSet(last'.returned) =
                          {str(products[i]._id) :
                              i \in {c \in Candidates : ScoreNow(c, call.user_id) > 0}}]_vars

\* C3 witness: a slate of two of the three candidates has been returned, so
\* under a limit of 5, and item B, approved and in no way out of stock, is
\* not on it
CandidateLeftOut ==
    /\ last.op = "get_personalized_ads"
    /\ Cardinality(Candidates) = 3
    /\ SlateSet(last.returned) = {"pA", "pC"}
    /\ calls.ads = 1

\* C5: a product with 10 or fewer recorded views has a popularity term of 0
\* whatever its recorded clicks, so that its score before the floor is the
\* sum of the other terms; with more than 10 views the term is the
\* click-through rate times 10, rounded down
CtrGate ==
    \A i \in 1..Len(products) :
        LET product_id == str(products[i]._id)
            views  == CountProduct(ad_views, product_id)
            clicks == CountProduct(ad_clicks, product_id)
        IN  /\ views <= 10 =>
                /\ CtrTerm(clicks, views) = 0
                /\ \A user_id \in RankedUsers :
                       LET user == users[ObjectId(user_id)]
                           patterns == FindPatterns(search_patterns, user_id)
                       IN  RawScoreNow(i, user_id) =
                               CategoryTerm(products[i], StoredCategories(user.ai_categories))
                               + InterestTerm(products[i],
                                     IF patterns = <<>> THEN <<>>
                                     ELSE patterns[1].interest_scores)
                               + AgeTerm(products[i], user.age)
                               + LocationTerm(products[i], user.location)
                               + RecencyTerm(products[i], now)
                               - PenaltyTerm(RecentViews(products[i], user_id, ad_views, now))
            /\ views > 10 => CtrTerm(clicks, views) = (clicks * 10) \div views

\* C5 witness: item A, with 10 recorded views and 12 recorded clicks, has
\* been ranked and returned at the score its other terms give it
GatedItemRanked ==
    /\ CountProduct(ad_views, "pA") = 10
    /\ CountProduct(ad_clicks, "pA") = 12
    /\ last.op = "get_personalized_ads"
    /\ \E j \in 1..Len(last.returned) :
           last.returned[j] = [product_id |-> "pA", relevance_score |-> 18]

\* whether the view log holds a view by user_id
HasViewed(user_id) == \E v \in 1..Len(ad_views) : ad_views[v].user_id = user_id

\* the position of product_id in a slate, 0 when it is not on it
PositionIn(slate, product_id) ==
    IF product_id \in SlateSet(slate)
    THEN CHOOSE j \in 1..Len(slate) :
             /\ slate[j].product_id = product_id
             /\ \A k \in 1..(j - 1) : slate[k].product_id # product_id
    ELSE 0

\* user u1 and the catalog are those of the example: labels
\* {education_seeker}, age 20, Colombo, no prior views; item A targets
\* education_seeker and all locations, is in category books and new; item B
\* has no target categories, is in category electronics and 60 days old
ExampleHolds ==
    /\ LabelsOf(users, ObjectId("u1")) = {"education_seeker"}
    /\ users[ObjectId("u1")].age = 20
    /\ users[ObjectId("u1")].location = Colombo
    /\ ~HasViewed("u1")
    /\ \E a, b \in Candidates :
           /\ products[a]._id = ObjectId("pA")
           /\ products[a].target_categories = {"education_seeker"}
           /\ (now - products[a].created_at[1]) \div HoursPerDay = 0
           /\ products[b]._id = ObjectId("pB")
           /\ products[b].target_categories = {}
           /\ (now - products[b].created_at[1]) \div HoursPerDay >= 60

\* C7, as the spec states it: in the example, a call with a limit of 2 or
\* more gives A a score of at least 18 and returns a slate on which A comes
\* before B
ExampleAThenB ==
    [][\A call \in AdCalls :
           ExampleHolds /\ call.user_id = "u1" /\ call.limit >= 2
                        /\ RankedCall(call.user_id, call.limit)
               => LET a == PositionIn(last'.returned, "pA")
                      b == PositionIn(last'.returned, "pB")
                  IN  /\ a > 0 /\ b > 0 /\ a < b
                      /\ last'.returned[a].relevance_score >= 18]_vars

\* C7, amended: in the example, get_personalized_ads gives A a score of at
\* least 18 and returns a slate that A heads; B, whose score is 0, is not on
\* the slate
ExampleAWithoutB ==
    [][\A call \in AdCalls :
           ExampleHolds /\ call.user_id = "u1" /\ RankedCall(call.user_id, call.limit)
               => /\ PositionIn(last'.returned, "pA") = 1
                  /\ last'.returned[1].relevance_score >= 18
                  /\ PositionIn(last'.returned, "pB") = 0
                  /\ \E b \in Candidates : /\ products[b]._id = ObjectId("pB")
                                           /\ ScoreNow(b, "u1") = 0]_vars

\* C7 witness: the first ranked slate of the run, returned to u1 under a
\* limit that left room for B, is headed by A at a score of at least 18 and
\* does not hold B
ExampleSlateReturned ==
    /\ last.op = "get_personalized_ads"
    /\ calls.ads = 1
    /\ \A v \in 1..Len(ad_views) : ad_views[v].user_id = "u1" => ad_views[v].timestamp = now
    /\ Len(last.returned) = 2
    /\ last.returned[1].product_id = "pA"
    /\ last.returned[1].relevance_score >= 18
    /\ "pB" \notin SlateSet(last.returned)

(***************************************************************************)
(* Properties of the repetition penalty and of view tracking               *)
(***************************************************************************)
\* the positions in the view log of the views of product_id by user_id
ViewsBy(user_id, product_id) ==
    {v \in 1..Len(ad_views) : /\ ad_views[v].user_id = user_id
                              /\ ad_views[v].product_id = product_id}

\* the view log without the views of product_id by user_id
WithoutViews(user_id, product_id) ==
    SelectSeq(ad_views, LAMBDA doc : ~(doc.user_id = user_id /\ doc.product_id = product_id))

\* the view log with the views of product_id by user_id put down to a user
\* that is no user of the run: the product's view count stays what it is
ViewsByAnother(user_id, product_id) ==
    [v \in 1..Len(ad_views) |->
        IF v \in ViewsBy(user_id, product_id)
        THEN [ad_views[v] EXCEPT !.user_id = "nobody"] ELSE ad_views[v]]

\* C4, as the spec states it: one hour after a view of X by U was recorded,
\* the score of X for U is at least 5 lower than it is with no prior view of
\* X by U; when every view of X by U is 25 hours old or older, the score
\* carries no penalty
DiversitySuppression ==
    \A user_id \in RankedUsers, i \in Candidates :
        LET product_id == str(products[i]._id)
            mine       == ViewsBy(user_id, product_id)
            unseen     == ScoreFor(products[i], user_id,
                                   WithoutViews(user_id, product_id), ad_clicks, now)
        IN  /\ (\E v \in mine : now - ad_views[v].timestamp = 1)
                => ScoreNow(i, user_id) + 5 <= unseen
            /\ (mine # {} /\ \A v \in mine : now - ad_views[v].timestamp >= 25)
                => PenaltyTerm(RecentViews(products[i], user_id, ad_views, now)) = 0

\* C4, amended: each view of X by U recorded in the last 24 hours lowers the
\* score of X for U before the floor by 5, measured against the same request
\* with these views put down to another user (same view and click counts of
\* X); a view recorded more than 24 hours ago lowers it by nothing
PenaltyPerRecentView ==
    \A user_id \in RankedUsers, i \in Candidates :
        LET product_id == str(products[i]._id)
            mine       == ViewsBy(user_id, product_id)
            recent     == {v \in mine : now - ad_views[v].timestamp <= 24}
        IN  RawScoreNow(i, user_id) + 5 * Cardinality(recent)
                = RawScoreFor(products[i], user_id,
                              ViewsByAnother(user_id, product_id), ad_clicks, now)

\* C4 witness: a product was returned to a user 25 hours ago and again now;
\* its score before the floor is what it is unseen, less 5 for the view
\* recorded now and nothing for the old one
OldAndRecentView ==
    \E user_id \in RankedUsers, i \in Candidates :
        LET product_id == str(products[i]._id)
            mine       == ViewsBy(user_id, product_id)
        IN  /\ \E v \in mine : now - ad_views[v].timestamp = 25
            /\ \E v \in mine : now - ad_views[v].timestamp = 0
            /\ Cardinality(mine) = 2
            /\ RawScoreNow(i, user_id) + 5
                   = RawScoreFor(products[i], user_id,
                                 ViewsByAnother(user_id, product_id), ad_clicks, now)

\* C10, as the spec states it: every call of get_personalized_ads that
\* returns a slate has appended one view (user, product, time of the call)
\* per returned product and added one to the views counter of each
EveryReturnTracked ==
    [][\A call \in AdCalls :
           RankedCall(call.user_id, call.limit) =>
               LET ids == SlateIds(last'.returned)
               IN  /\ ad_views' = ad_views \o
                          [j \in 1..Len(ids) |->
                              [user_id |-> call.user_id, product_id |-> ids[j],
                               timestamp |-> now]]
                   /\ \A i \in 1..Len(products) :
                          products'[i].views = products[i].views
                              + (IF str(products[i]._id) \in SlateSet(last'.returned)
                                 THEN 1 ELSE 0)]_vars

\* C10, amended: a call that returns a ranked slate and whose tracking
\* writes all go through has appended one view per returned product and
\* added one to the views counter of each; when insert_many fails nothing is
\* recorded; when the counter update of the k-th returned product fails, the
\* views are all appended and only the counters of the products before it
\* are raised
RankedReturnTracked ==
    [][\A call \in AdCalls, outcome \in TrackingOutcomes :
           GetPersonalizedAds(call.user_id, call.limit, {outcome}) =>
               LET ids   == SlateIds(last'.returned)
                   docs  == [j \in 1..Len(ids) |->
                                [user_id |-> call.user_id, product_id |-> ids[j],
                                 timestamp |-> now]]
                   added(i, n) == IF \E j \in 1..n : ids[j] = str(products[i]._id)
                                  THEN 1 ELSE 0
                   raised(n) == \A i \in 1..Len(products) :
                                    products'[i].views = products[i].views + added(i, n)
               IN  \/ ad_views' = ad_views \o docs /\ raised(Len(ids))
                   \/ outcome = "insert_failed" /\ ad_views' = ad_views /\ raised(0)
                   \/ outcome = "update_failed" /\ ad_views' = ad_views \o docs
                          /\ \E k \in 1..Len(ids) : raised(k - 1)]_vars

\* C10 witness: a ranked slate of two products has been returned, the view
\* log ends with their two views at the time of the call and both counters
\* are one above the views the products had at the start
SlateViewsRecorded ==
    /\ last.op = "get_personalized_ads"
    /\ calls.ads = 1
    /\ Len(last.returned) = 2
    /\ Len(ad_views) >= 2
    /\ \A j \in 1..2 :
           /\ ad_views[Len(ad_views) - 2 + j].product_id = last.returned[j].product_id
           /\ ad_views[Len(ad_views) - 2 + j].timestamp = now
    /\ \A i \in 1..Len(products) :
           str(products[i]._id) \in SlateSet(last.returned)
               => products[i].views = CountProduct(ad_views, str(products[i]._id))

(***************************************************************************)
(* Properties of the profile recompute                                     *)
(***************************************************************************)
\* the stored profile of user_id in the collection col
ProfileOf(col, user_id) == FindPatterns(col, user_id)[1]

\* a profile with the time of its computation blanked
Undated(doc) == [doc EXCEPT !.last_updated = 0]

\* the searches of user_id that the window of a recompute at time t holds
Window(user_id, t) ==
    FindSearches(search_history, Len(search_history), user_id,
                 <<t - WindowDays * HoursPerDay>>)

\* C6, as the spec states it: a recompute for a user whose stored profile
\* was computed from the same search events stores a document identical to
\* the stored one
RecomputeIdentical ==
    [][\A user_id \in UserIds :
           UpdateSearchPatterns(user_id) /\ FindPatterns(search_patterns, user_id) # <<>>
               => ProfileOf(search_patterns', user_id)
                      = ProfileOf(search_patterns, user_id)]_vars

\* C6, amended: a recompute for a user whose stored profile was computed
\* from the same search events, none of which has left the 30-day window
\* since, stores a document that differs from the stored one at most in
\* last_updated, which is the time of the recompute
RecomputeSameButDate ==
    [][\A user_id \in UserIds :
           /\ UpdateSearchPatterns(user_id)
           /\ FindPatterns(search_patterns, user_id) # <<>>
           /\ Window(user_id, now)
                  = Window(user_id, ProfileOf(search_patterns, user_id).last_updated)
           => /\ Undated(ProfileOf(search_patterns', user_id))
                     = Undated(ProfileOf(search_patterns, user_id))
              /\ ProfileOf(search_patterns', user_id).last_updated = now]_vars

\* C6 witness: the profile of u1, computed when its last search was tracked,
\* has been recomputed a day later from the same two searches
RecomputedLater ==
    /\ last.op = "_update_search_patterns"
    /\ now = HoursPerDay
    /\ calls.searches = 0
    /\ ProfileOf(search_patterns, "u1").last_updated = now
    /\ ProfileOf(search_patterns, "u1").search_count = 2

(***************************************************************************)
(* Properties of the registration categorizer                              *)
(***************************************************************************)
\* the form of the example, whatever its location
IsExampleForm(form) ==
    /\ form.age = 30
    /\ form.job = <<"S","o","f","t","w","a","r","e"," ","E","n","g","i","n","e","e","r">>
    /\ form.interests = << <<"t","e","c","h","n","o","l","o","g","y">> >>

\* C8: for age 30, job "Software Engineer" and interests ["technology"] the
\* categorizer returns early_career, tech_professional and one of
\* tech_enthusiast / electronics_buyer among its labels, and its labels and
\* scores are the same at every time of call: those below, with
\* urban_resident and 10 more on the two technology scores for Colombo,
\* rural_resident otherwise
RegistrationExample ==
    regResult # <<>> /\ IsExampleForm(regInput) =>
        LET result == regResult[1]
            urban  == regInput.location = Colombo
            bonus  == IF urban THEN 10 ELSE 0
        IN  /\ {"early_career", "tech_professional"} \subseteq result.categories
            /\ {"tech_enthusiast", "electronics_buyer"} \cap result.categories # {}
            /\ result.categories =
                   {"early_career", "tech_professional", "tech_enthusiast",
                    "electronics_buyer", "career_focused",
                    IF urban THEN "urban_resident" ELSE "rural_resident"}
            /\ result.category_scores =
                   << [k |-> "career_focused", v |-> 30],
                      [k |-> "property_seeker", v |-> 10],
                      [k |-> "tech_enthusiast", v |-> 75 + bonus],
                      [k |-> "electronics_buyer", v |-> 65 + bonus] >>

\* C8 witness: the example form with no location has been categorized a day
\* after time 0
ExampleCategorized ==
    /\ regResult # <<>>
    /\ IsExampleForm(regInput)
    /\ regInput.location = <<>>
    /\ now = HoursPerDay
    /\ "tech_professional" \in regResult[1].categories

(***************************************************************************)
(* Properties of the fallback                                              *)
(***************************************************************************)
\* a slate is a default slate under limit: approved products only, every
\* relevance_score 0, no more than limit entries
IsDefaultSlate(slate, limit) ==
    /\ Len(slate) <= limit
    /\ \A j \in 1..Len(slate) :
           /\ slate[j].relevance_score = 0
           /\ \E i \in 1..Len(products) : /\ str(products[i]._id) = slate[j].product_id
                                          /\ products[i].status = "approved"

\* the stored state: the collections
stored == << users, search_history, search_patterns, products, ad_views, ad_clicks >>

\* C9, as the spec states it: a call of get_personalized_ads for an id that
\* resolves to no user or is malformed, or during which a store operation
\* fails, raises nothing, returns a default slate or an empty list and
\* leaves the stored state as it is
FallbackOnAnyFailure ==
    [][/\ \A call \in DefaultCalls :
              GetDefaultAds(call.user_id, call.limit, call.read_raised)
                  => /\ ~last'.raised
                     /\ IsDefaultSlate(last'.returned, call.limit)
                     /\ UNCHANGED stored
       /\ \A call \in AdCalls :
              GetPersonalizedAds(call.user_id, call.limit, {"insert_failed"})
                  => /\ ~last'.raised
                     /\ IsDefaultSlate(last'.returned, call.limit)
                     /\ UNCHANGED stored]_vars

\* C9, amended: a call of get_personalized_ads for an id that resolves to no
\* user or is malformed, or during which a read of the store fails, raises
\* nothing, returns a default slate or an empty list and leaves the stored
\* state as it is; a call whose view-tracking insert fails raises nothing
\* either but returns the ranked slate
FallbackOnReadFailure ==
    [][/\ \A call \in DefaultCalls :
              GetDefaultAds(call.user_id, call.limit, call.read_raised)
                  => /\ ~last'.raised
                     /\ IsDefaultSlate(last'.returned, call.limit)
                     /\ UNCHANGED stored
       /\ \A call \in AdCalls :
              GetPersonalizedAds(call.user_id, call.limit, {"insert_failed"})
                  => /\ ~last'.raised
                     /\ last'.returned = TopAds(call.user_id, call.limit)
                     /\ UNCHANGED stored]_vars

\* C9 witness: a default slate of several products has been returned, item
\* A and the out-of-stock item, which no ranked slate holds, among them
DefaultSlateReturned ==
    /\ last.op = "get_personalized_ads"
    /\ ~last.raised
    /\ Len(last.returned) > 1
    /\ {"pA", "pE"} \subseteq SlateSet(last.returned)
    /\ \A j \in 1..Len(last.returned) : last.returned[j].relevance_score = 0

(***************************************************************************)
(* Properties of the logs                                                  *)
(***************************************************************************)
\* C11: once clicked_result of a SearchEvent is set, no later call changes
\* its value
ClickedResultSetOnce ==
    [][\A i \in 1..Len(search_history) :
           search_history[i].clicked_result # <<>>
               => search_history'[i].clicked_result = search_history[i].clicked_result]_vars

\* whether old is what new starts with
IsPrefix(old, new) == Len(old) <= Len(new) /\ SubSeq(new, 1, Len(old)) = old

\* C12: every step of track_search, track_click, get_personalized_ads and
\* track_ad_click leaves each entry of the three logs in its place and as it
\* was, but for the clicked_result of the SearchEvent that a track_click
\* names
LogsAppendOnly ==
    [][/\ IsPrefix(ad_views, ad_views')
       /\ IsPrefix(ad_clicks, ad_clicks')
       /\ Len(search_history) <= Len(search_history')
       /\ \A i \in 1..Len(search_history) :
              \/ search_history'[i] = search_history[i]
              \/ /\ \E search_id \in ClickedSearches, clicked_result \in ClickedResults :
                         /\ TrackClick(search_id, clicked_result)
                         /\ FindSearch(search_history, search_id) = i
                  /\ [search_history'[i] EXCEPT !.clicked_result = <<>>]
                         = [search_history[i] EXCEPT !.clicked_result = <<>>]]_vars

\* C12 witness: a search, a view and an ad click have been logged in the run
\* and the result clicked for the new search is recorded on it
LogsGrown ==
    /\ Len(search_history) = Len(EarlierSearches) + 1
    /\ search_history[Len(search_history)].clicked_result = <<"r2">>
    /\ \E v \in 1..Len(ad_views) : ad_views[v].user_id = "u1"
    /\ \E c \in 1..Len(ad_clicks) : ad_clicks[c].user_id = "u1"

(***************************************************************************)
(* Properties of concurrent calls                                          *)
(***************************************************************************)
\* the track_search calls among the concurrent calls
TrackCalls == {p \in DOMAIN RaceCalls : RaceCalls[p].op = "track_search"}

\* every concurrent call has returned
AllReturned == \A p \in DOMAIN RaceCalls : procs[p].pc = "done"

\* the number of documents that col holds for user_id
ProfileCount(col, user_id) ==
    Cardinality({i \in 1..Len(col) : col[i].user_id = user_id})

\* C13: whatever the interleaving of the track_search calls, the collection
\* holds at most one profile per user id, and each upsert leaves in that one
\* document the search_count, top_keywords, top_categories, interest_scores
\* and search_frequency derived from the searches the call has read
OneProfileOverwritten ==
    [][/\ \A user_id \in UserIds : ProfileCount(search_patterns', user_id) <= 1
       /\ \A p \in DOMAIN RaceCalls :
              UpsertPatterns(p) =>
                  LET searches == procs[p].searches
                      profile  == ProfileOf(search_patterns', RaceCalls[p].user_id)
                      keywords == MostCommon(Counter(AllKeywords(searches)), TopKeywords)
                      topics   == MostCommon(Counter(AllCategories(searches)), TopCategories)
                  IN  /\ profile.search_count = Len(searches)
                      /\ profile.top_keywords = keywords
                      /\ profile.top_categories = topics
                      /\ profile.interest_scores = _calculate_interest_scores(keywords, topics)
                      /\ profile.search_frequency =
                             _calculate_search_frequency(Len(searches), WindowDays)]_vars

\* C13 witness: both track_search calls have made their upsert, the second
\* over the first, and u1 has one profile, which counts the four searches
TwoUpsertsOneProfile ==
    /\ \A p \in TrackCalls : procs[p].pc \in {"patterns", "user", "write", "done"}
    /\ ProfileCount(search_patterns, "u1") = 1
    /\ ProfileOf(search_patterns, "u1").search_count = 4

\* the events of user_id in the log that the 30-day window of time t holds
InWindow(user_id, t) ==
    {i \in 1..Len(search_history) :
        /\ search_history[i].user_id = user_id
        /\ search_history[i].timestamp >= t - WindowDays * HoursPerDay}

\* C14, as the spec states it: once every call has returned, the stored
\* profile of u1 is the profile computed from all of u1's events in the
\* window, and its search_count is their number
ProfileOfFullLog ==
    AllReturned =>
        /\ ProfileOf(search_patterns, "u1") = PatternsDoc("u1", Window("u1", now), now)
        /\ ProfileOf(search_patterns, "u1").search_count
               = Cardinality(InWindow("u1", now))

\* C14, amended: once every call has returned, the stored profile of u1 is
\* the profile computed from u1's events as one of the track_search calls
\* read them, which holds that call's own event; its search_count is at most
\* the number of u1's events in the window and can be below it
ProfileOfSomeRead ==
    AllReturned =>
        /\ \E p \in TrackCalls :
               /\ ProfileOf(search_patterns, "u1")
                      = PatternsDoc("u1", procs[p].searches, now)
               /\ \E n \in 1..Len(procs[p].searches) :
                      procs[p].searches[n].query = lower(RaceCalls[p].query)
        /\ ProfileOf(search_patterns, "u1").search_count
               \in 1..Cardinality(InWindow("u1", now))

\* C14 witness: every call has returned and the stored profile counts three
\* searches where the log holds four
StaleProfileStored ==
    /\ AllReturned
    /\ Cardinality(InWindow("u1", now)) = 4
    /\ ProfileOf(search_patterns, "u1").search_count = 3

MatchesNoUser(user_id) == ~(IsValidObjectId(user_id) /\ UserExists(users, user_id))

\* C16: a recompute for a user id that matches no user record, run by
\* track_search or on its own, raises nothing to its caller and leaves the
\* profiles and the user records as they were
UnknownUserNoOp ==
    [][\A call \in SearchCalls :
          /\ MatchesNoUser(call.user_id)
          /\ TrackSearch(call.user_id, call) \/ UpdateSearchPatterns(call.user_id)
          => /\ ~last'.raised
             /\ search_patterns' = search_patterns
             /\ users' = users]_vars

(***************************************************************************)
(* Properties of the candidate set and the slate                           *)
(***************************************************************************)
\* the positions in the catalog of the approved items whose stock is absent
\* or at least `least`
ApprovedWithStock(least) ==
    {i \in 1..Len(products) :
        /\ products[i].status = "approved"
        /\ products[i].stock = <<>> \/ products[i].stock[1] >= least}

\* the ids of the entries of a slate
IdsOf(slate) == {slate[n].product_id : n \in 1..Len(slate)}

\* a ranked return shows only items among the candidates, and when the limit
\* cannot cut the slate it shows every candidate whose score is positive
SlateFromCandidates(candidates) ==
    \A call \in AdCalls :
        RankedCall(call.user_id, call.limit) =>
            /\ IdsOf(last'.returned) \subseteq {str(products[i]._id) : i \in candidates}
            /\ call.limit >= Len(products) =>
                   IdsOf(last'.returned) =
                       {str(products[i]._id) : i \in
                           {c \in candidates : ScoreNow(c, call.user_id) > 0}}

\* C17, as the spec states it: the candidates are the approved items whose
\* stock is absent or non-negative, an item with stock 0 among them
CandidatesNonNegativeStock == [][SlateFromCandidates(ApprovedWithStock(0))]_vars

\* C17, amended: the candidates are the approved items whose stock is absent
\* or positive; an item with stock 0, with negative stock or with another
\* status is in no personalized slate
CandidatesPositiveStock == [][SlateFromCandidates(ApprovedWithStock(1))]_vars

\* C17 witness: a slate of up to five items was returned to u1 from a catalog
\* whose last item is approved, scores above 0 and has stock 0; it shows
\* item A and not that item
SoldOutLeftOut ==
    /\ last.op = "get_personalized_ads"
    /\ Len(last.returned) >= 2
    /\ ad_views[Len(ad_views)].user_id = "u1"
    /\ products[5].status = "approved" /\ products[5].stock = <<0>>
    /\ ScoreNow(5, "u1") > 0
    /\ "pA" \in IdsOf(last.returned)
    /\ "pE" \notin IdsOf(last.returned)

\* the position in the catalog of the item with the given id
PositionOf(product_id) ==
    CHOOSE i \in 1..Len(products) : str(products[i]._id) = product_id

\* C18: the slate returned by get_personalized_ads(user, limit) has at most
\* limit entries and no item twice, its scores do not increase, entries of
\* equal score are in catalog scan order, and no candidate left out has a
\* score above that of a returned entry
SlateOrderedAndCut ==
    [][\A call \in AdCalls :
          RankedCall(call.user_id, call.limit) =>
              LET slate == last'.returned
                  left  == {c \in ApprovedWithStock(1) :
                               /\ ScoreNow(c, call.user_id) > 0
                               /\ str(products[c]._id) \notin IdsOf(slate)}
              IN  /\ Len(slate) <= call.limit
                  /\ \A m, n \in 1..Len(slate) :
                         m < n =>
                             /\ slate[m].product_id # slate[n].product_id
                             /\ slate[m].relevance_score >= slate[n].relevance_score
                             /\ slate[m].relevance_score = slate[n].relevance_score
                                    => PositionOf(slate[m].product_id)
                                           < PositionOf(slate[n].product_id)
                  /\ \A c \in left : \A n \in 1..Len(slate) :
                         ScoreNow(c, call.user_id) <= slate[n].relevance_score]_vars

\* C18 witness: a slate was returned whose first two entries have the same
\* score, item A before the last item of the catalog
TieInScanOrder ==
    /\ last.op = "get_personalized_ads"
    /\ Len(last.returned) >= 2
    /\ last.returned[1].product_id = "pA"
    /\ last.returned[2].product_id = "pE"
    /\ last.returned[1].relevance_score = last.returned[2].relevance_score

(***************************************************************************)
(* Properties of the relevance score                                       *)
(***************************************************************************)
\* the score of the i-th item for a stored user as the sum of its terms,
\* each taken from the stored data
SumOfTerms(i, user_id) ==
    LET item      == products[i]
        user      == users[ObjectId(user_id)]
        interests == IF FindPatterns(search_patterns, user_id) = <<>> THEN <<>>
                     ELSE ProfileOf(search_patterns, user_id).interest_scores
        topics    == {category_interest_map[n].v : n \in
                         {m \in 1..Len(category_interest_map) :
                             category_interest_map[m].k = lower(item.category)}}
        overlap   == Cardinality(LabelsOf(users, ObjectId(user_id))
                                     \cap item.target_categories)
        interest  == IF \E t \in topics : DictGet(interests, t) > 0
                     THEN 2 * DictGet(interests, CHOOSE t \in topics : TRUE)
                     ELSE 0
        min_age   == IF item.age_range[1].min = <<>> THEN 0 ELSE item.age_range[1].min[1]
        max_age   == IF item.age_range[1].max = <<>> THEN 100 ELSE item.age_range[1].max[1]
        age       == IF user.age = 0 \/ item.age_range = <<>> THEN 0
                     ELSE IF min_age <= user.age /\ user.age <= max_age THEN 5 ELSE 0
        location  == IF user.location = <<>> \/ item.target_locations = <<>> THEN 0
                     ELSE IF \/ user.location \in item.target_locations[1]
                             \/ <<"a","l","l">> \in item.target_locations[1]
                          THEN 3 ELSE 0
        days_old  == (now - item.created_at[1]) \div 24
        recency   == IF days_old < 7 THEN 5 ELSE IF days_old < 30 THEN 2 ELSE 0
        views     == Cardinality({n \in 1..Len(ad_views) :
                                     ad_views[n].product_id = str(item._id)})
        clicks    == Cardinality({n \in 1..Len(ad_clicks) :
                                     ad_clicks[n].product_id = str(item._id)})
        ctr       == IF views > 10 THEN (10 * clicks) \div views ELSE 0
        recent    == Cardinality({n \in 1..Len(ad_views) :
                                     /\ ad_views[n].user_id = user_id
                                     /\ ad_views[n].product_id = str(item._id)
                                     /\ ad_views[n].timestamp >= now - 24})
        total     == 10 * overlap + interest + age + location + recency + ctr
                     - 5 * recent
    IN  IF total > 0 THEN total ELSE 0

\* C19: for every stored user and every item of the catalog,
\* _calculate_relevance_score returns max(0, 10 per label shared with the
\* item's target categories + 2 * the interest score of the item's mapped
\* topic when positive + 5 for an age within the item's range + 3 for a
\* location among the item's or an item for 'all' + 5 or 2 for recency + the
\* CTR term - 5 per view of the item by the user in the last 24 hours), the
\* age and location terms left out when either side is absent
ScoreIsSumOfTerms ==
    \A user_id \in {"u1", "u2"} : \A i \in 1..Len(products) :
        ScoreNow(i, user_id) = SumOfTerms(i, user_id)

\* C19 witness: item A, viewed 11 times and once by u1 within the day,
\* scores 10 + 3 + 5 + 10 - 5 for u1; the third item scores 5 + 3 + 2 for u1
\* by age, location and recency, and 20 + 6 + 2 for u2, who has no age and no
\* location, by two labels and the technology interest
EveryTermScored ==
    /\ CountProduct(ad_views, "pA") = 11
    /\ RecentViews(products[1], "u1", ad_views, now) = 1
    /\ ScoreNow(1, "u1") = 23
    /\ ScoreNow(3, "u1") = 10
    /\ ScoreNow(3, "u2") = 28

(***************************************************************************)
(* Properties of the search recategorization pass                          *)
(***************************************************************************)
\* the keys of a dict
KeysOf(d) == {d[i].k : i \in 1..Len(d)}

\* what a pass on a stored user with search history stores when the
\* ai_categories stored before has one of `shapes`: for every category c the score
\* stored before plus the amount this pass derived from the searches, and
\* the labels stored before with every category whose amount is at least 15
PassAddsDelta(user_id, shapes) ==
    /\ RecategorizeBasedOnSearch(user_id)
    /\ IsValidObjectId(user_id) /\ UserExists(users, user_id)
    /\ LastSearches(search_history, user_id) # <<>>
    /\ users[ObjectId(user_id)].ai_categories.fmt \in shapes
    => LET before == users[ObjectId(user_id)].ai_categories
           after  == users'[ObjectId(user_id)].ai_categories
           delta  == SearchScores(LastSearches(search_history, user_id), <<>>)
       IN  /\ \A c \in KeysOf(before.category_scores) \cup KeysOf(delta)
                           \cup KeysOf(after.category_scores) :
                  DictGet(after.category_scores, c)
                      = DictGet(before.category_scores, c) + DictGet(delta, c)
           /\ StoredCategories(after) =
                  StoredCategories(before)
                      \cup {c \in KeysOf(delta) : DictGet(delta, c) >= 15}

EarnedLabels(profile) ==
    LET rules == { [topic |-> "education", least |-> 5,
                    labels |-> {"education_seeker", "course_buyer"}],
                   [topic |-> "technology", least |-> 3,
                    labels |-> {"tech_enthusiast", "electronics_buyer"}],
                   [topic |-> "business", least |-> 3,
                    labels |-> {"business_owner", "entrepreneur"}],
                   [topic |-> "employment", least |-> 3,
                    labels |-> {"job_seeker", "career_focused"}],
                   [topic |-> "property", least |-> 3,
                    labels |-> {"property_seeker", "property_investor"}],
                   [topic |-> "health", least |-> 3, labels |-> {"health_focused"}],
                   [topic |-> "immigration", least |-> 3,
                    labels |-> {"travel_seeker", "passport_applicant"}] }
    IN  UNION {r.labels : r \in {q \in rules :
                  DictGet(profile.interest_scores, q.topic) >= q.least}}
        \cup (IF profile.search_frequency \in {"active", "very_active"}
              THEN {"power_user", "engaged_user"} ELSE {})

\* C21: a track_search call for a stored user appends its event once, then
\* recomputes the profile, then recategorizes: when it returns the log is
\* one event longer, the stored profile was computed in this call and counts
\* the user's events in the window with the new one, and the user's labels
\* are those stored before with every label that this profile earns
TrackedThenRefreshed ==
    [][\A call \in SearchCalls :
          TrackSearch(call.user_id, call) /\ Resolves(call.user_id) =>
              LET o       == ObjectId(call.user_id)
                  profile == ProfileOf(search_patterns', call.user_id)
                  counted == {i \in 1..Len(search_history') :
                                 /\ search_history'[i].user_id = call.user_id
                                 /\ search_history'[i].timestamp
                                        >= now - WindowDays * HoursPerDay}
              IN  /\ Len(search_history') = Len(search_history) + 1
                  /\ SubSeq(search_history', 1, Len(search_history)) = search_history
                  /\ search_history'[Len(search_history')].query = lower(call.query)
                  /\ Len(search_history') \in counted
                  /\ FindPatterns(search_patterns', call.user_id) # <<>>
                  /\ profile.search_count = Cardinality(counted)
                  /\ profile.last_updated = now
                  /\ LabelsOf(users', o) = LabelsOf(users, o) \cup EarnedLabels(profile)
                  /\ ~last'.raised]_vars

\* C21 witness: track_search has returned for u1 after the search for school
\* courses: the profile counts three searches, its education score is 5 and
\* u1 has the label course_buyer, which it did not have before
EarnedOnReturn ==
    /\ last.op = "track_search" /\ ~last.raised
    /\ calls.searches = 1
    /\ ProfileOf(search_patterns, "u1").search_count = 3
    /\ DictGet(ProfileOf(search_patterns, "u1").interest_scores, "education") = 5
    /\ "course_buyer" \in LabelsOf(users, ObjectId("u1"))

(***************************************************************************)
(* Properties of concurrent ad requests                                    *)
(***************************************************************************)
\* the requests whose slate holds the product
SlatesWith(product_id) ==
    {p \in DOMAIN AdRaceCalls : product_id \in IdsOf(procs[p].top_ads)}

\* the views of the product by the user in the log
ViewsInLog(user_id, product_id) ==
    Cardinality({n \in 1..Len(ad_views) : /\ ad_views[n].user_id = user_id
                                          /\ ad_views[n].product_id = product_id})

FrameOps ==
    {"get_personalized_ads", "get_user_search_patterns", "get_user_search_history",
     "track_click", "track_ad_click"}

PerformanceReadsPure ==
    [][/\ last'.op \in {"get_ad_performance", "get_top_performing_ads"}
              => stored' = stored
       /\ \A product_id \in PerformanceProducts :
              AdPerformance(product_id, FALSE) =>
                  /\ last'.returned # <<>>
                  /\ ~last'.raised
                  /\ last'.returned[1].total_views = CountProduct(ad_views, product_id)
                  /\ CountProduct(ad_views, product_id) = 0
                         => last'.returned[1].ctr = 0]_vars

\* C24 witness: get_ad_performance has reported item A, clicked once and
\* never viewed, with a ctr of 0
ClickedUnviewedReported ==
    /\ last.op = "get_ad_performance"
    /\ last.returned # <<>>
    /\ last.returned[1].product_id = "pA"
    /\ last.returned[1].total_clicks = 1
    /\ last.returned[1].total_views = 0
    /\ last.returned[1].ctr = 0

\* the rank of the i-th accumulated score: one more than the number of scores
\* that are higher, or equal and accumulated earlier
RankOf(scores, i) ==
    1 + Cardinality({j \in 1..Len(scores) :
            \/ scores[j].v > scores[i].v
            \/ scores[j].v = scores[i].v /\ j < i})

\* the labels of a registration result that are behavioral categories: the
\* demographic labels are none of the score keys
ThresholdLabels(result) == result.categories \cap DictKeys(result.category_scores)

\* C25: the labels that the threshold phase of categorize_user_on_registration
\* adds are exactly the behavioral categories that rank among the 5 highest
\* scores, equal scores ranked by first accumulation, and have a score of at
\* least 20; they are at most 5, and a category that ranks sixth or lower is
\* not added whatever its score
TopFiveAboveThreshold ==
    regResult # <<>> =>
        LET result == regResult[1]
            scores == result.category_scores
        IN  /\ ThresholdLabels(result) =
                   {scores[i].k : i \in {j \in 1..Len(scores) :
                       RankOf(scores, j) <= 5 /\ scores[j].v >= 20}}
            /\ Cardinality(ThresholdLabels(result)) <= 5
            /\ \A i \in 1..Len(scores) :
                   RankOf(scores, i) >= 6 => scores[i].k \notin result.categories

\* C25 witness: a form was categorized with six or more scores of at least 20,
\* the fifth and the sixth highest equal, and only the one accumulated first
\* became a label
SixthAboveThresholdLeftOut ==
    /\ regResult # <<>>
    /\ \E i, j \in 1..Len(regResult[1].category_scores) :
           LET scores == regResult[1].category_scores
           IN  /\ RankOf(scores, i) = 5
               /\ RankOf(scores, j) = 6
               /\ scores[i].v = scores[j].v
               /\ scores[j].v >= 20
               /\ i < j
               /\ scores[i].k \in regResult[1].categories
               /\ scores[j].k \notin regResult[1].categories

\* the demographic labels of the five age bands
AgeLabels ==
    {"young_adult", "early_career", "mid_career_family",
     "established_professional", "senior"}

\* the label of the band of an age: under 25, 25 to 35, 36 to 45, 46 to 60,
\* over 60
LabelOfAge(age) ==
    IF age < 25 THEN "young_adult"
    ELSE IF age <= 35 THEN "early_career"
    ELSE IF age <= 45 THEN "mid_career_family"
    ELSE IF age <= 60 THEN "established_professional"
    ELSE "senior"

\* what the age of the categorized form added to each score: the score of the
\* result less the score of the same form without an age
AgeRaise(k) ==
    DictGet(regResult[1].category_scores, k)
        - DictGet(categorize_user_on_registration(
                      [regInput EXCEPT !.age = 0], now).category_scores, k)

\* what the age alone, with no job, location or interests, adds to a score
BandRaise(k) ==
    DictGet(categorize_user_on_registration(
                [age |-> regInput.age, job |-> <<>>, location |-> <<>>,
                 interests |-> <<>>], now).category_scores, k)

\* the scores that the age of the categorized form raised
AgeRaised == {k \in DictKeys(regResult[1].category_scores) : AgeRaise(k) # 0}

\* the age of the categorized form fell in exactly one band and added the
\* label of that band and no other
OneAgeBand ==
    regResult[1].categories \cap AgeLabels = {LabelOfAge(regInput.age)}

\* C27 as stated: every age falls in exactly one of the five bands, which
\* adds its one demographic label and raises 2 or 3 behavioral scores, each
\* by a fixed value between 20 and 30
AgeBandsAsStated ==
    regResult # <<>> =>
        /\ OneAgeBand
        /\ Cardinality(AgeRaised) \in 2..3
        /\ \A k \in AgeRaised : AgeRaise(k) = BandRaise(k) /\ AgeRaise(k) \in 20..30

\* C27: every age other than 0 falls in exactly one of the five bands, which
\* adds its one demographic label and raises 1 to 3 behavioral scores, each
\* by a fixed value between 10 and 30; an age of 0 adds no label and raises
\* no score
AgeBandsAsCoded ==
    regResult # <<>> =>
        IF regInput.age # 0
        THEN /\ OneAgeBand
             /\ Cardinality(AgeRaised) \in 1..3
             /\ \A k \in AgeRaised : AgeRaise(k) = BandRaise(k) /\ AgeRaise(k) \in 10..30
        ELSE /\ regResult[1].categories \cap AgeLabels = {}
             /\ AgeRaised = {}

\* C27 witness: a form of a student aged 30 was categorized: the age added
\* early_career and raised career_focused by 30 and property_seeker by 10
EarlyCareerRaisesTen ==
    /\ regResult # <<>>
    /\ regInput.age = 30
    /\ regInput.job # <<>>
    /\ "student" \in regResult[1].categories
    /\ "early_career" \in regResult[1].categories
    /\ AgeRaised = {"career_focused", "property_seeker"}
    /\ AgeRaise("property_seeker") = 10

\* the keyword list of each of the eight topics
TopicList(topic) ==
    CASE topic = "education"   -> education_keywords
      [] topic = "health"      -> health_keywords
      [] topic = "business"    -> business_keywords
      [] topic = "employment"  -> employment_keywords
      [] topic = "technology"  -> tech_keywords
      [] topic = "transport"   -> transport_keywords
      [] topic = "property"    -> property_keywords
      [] topic = "immigration" -> immigration_keywords

EightTopics ==
    {"education", "health", "business", "employment", "technology", "transport",
     "property", "immigration"}

\* the distinct keywords of the profile's top_keywords that are in the list
\* of the topic
TopicOverlap(profile, topic) == DictKeys(profile.top_keywords) \cap TopicList(topic)

\* C26: in every stored profile the scores are those of the eight topics,
\* each the number of distinct keywords of top_keywords that are in the
\* topic's list, hence between 0 and the smaller of 20 and the size of the
\* list, however often a keyword was searched
ScoresCountDistinctKeywords ==
    \A n \in 1..Len(search_patterns) :
        LET profile == search_patterns[n]
        IN  /\ DictKeys(profile.interest_scores) = EightTopics
            /\ Len(profile.interest_scores) = 8
            /\ Len(profile.top_keywords) = Cardinality(DictKeys(profile.top_keywords))
            /\ \A topic \in EightTopics :
                   LET score == DictGet(profile.interest_scores, topic)
                   IN  /\ score = Cardinality(TopicOverlap(profile, topic))
                       /\ score >= 0
                       /\ score <= 20
                       /\ score <= Cardinality(TopicList(topic))

\* C26 witness: the same query was tracked again for u1, whose profile counts
\* a keyword of the employment list three times or more and still scores
\* employment by the number of distinct keywords, fewer than that
RepeatedQueryScoredOnce ==
    /\ last.op = "track_search"
    /\ FindPatterns(search_patterns, "u1") # <<>>
    /\ LET profile == ProfileOf(search_patterns, "u1")
       IN  /\ \E i \in 1..Len(profile.top_keywords) :
                  /\ profile.top_keywords[i].k \in employment_keywords
                  /\ profile.top_keywords[i].v >= 3
                  /\ DictGet(profile.interest_scores, "employment")
                         < profile.top_keywords[i].v
           /\ DictGet(profile.interest_scores, "employment") >= 1

\* C28: a call of track_ad_click that returns False has appended no click
\* event and changed no clicks counter, and one that returns True has appended
\* exactly one click event, of the given user and item
ClickAllOrNothing ==
    [][\A user_id \in ClickUsers, product_id \in ClickedProducts,
         outcome \in TrackingOutcomes :
           TrackAdClick(user_id, product_id, outcome) =>
               IF last'.returned
               THEN /\ Len(ad_clicks') = Len(ad_clicks) + 1
                    /\ SubSeq(ad_clicks', 1, Len(ad_clicks)) = ad_clicks
                    /\ ad_clicks'[Len(ad_clicks')].user_id = user_id
                    /\ ad_clicks'[Len(ad_clicks')].product_id = product_id
               ELSE /\ ad_clicks' = ad_clicks
                    /\ products' = products]_vars

\* C30: whatever views and clicks the two logs hold, the popularity term
\* that _calculate_relevance_score adds for a product is between 0 and 10
PopularityUpToTen ==
    \A i \in 1..Len(products) :
        LET product_id == str(products[i]._id)
        IN  CtrTerm(CountProduct(ad_clicks, product_id),
                    CountProduct(ad_views, product_id)) \in 0..10

\* ceil(n / d) for n >= 0 and d > 0
CeilDiv(n, d) == (n + d - 1) \div d

\* the returns of the same item to the same user as the a-th return, in the
\* 24 hours that begin with it
SameInWindow(a) ==
    {b \in 1..Len(calls.shown) :
        /\ calls.shown[b].user_id = calls.shown[a].user_id
        /\ calls.shown[b].product_id = calls.shown[a].product_id
        /\ calls.shown[b].timestamp >= calls.shown[a].timestamp
        /\ calls.shown[b].timestamp <= calls.shown[a].timestamp + 24}

\* the a-th return is of an item with no recorded click whose score before
\* the penalty is the same at every return of the window
FixedScoreNoClicks(a) ==
    /\ CountProduct(ad_clicks, calls.shown[a].product_id) = 0
    /\ \A b \in SameInWindow(a) : calls.shown[b].base = calls.shown[a].base

\* every return of the window left its view in the log: the views of the
\* item by the user at each time are as many as the returns at that time
ViewsRecorded(a) ==
    \A b \in SameInWindow(a) :
        Cardinality({v \in ViewsBy(calls.shown[a].user_id, calls.shown[a].product_id) :
                        ad_views[v].timestamp = calls.shown[b].timestamp})
          = Cardinality({c \in SameInWindow(a) :
                            calls.shown[c].timestamp = calls.shown[b].timestamp})

\* C29 as stated: an item with no recorded click and a score of s before the
\* penalty is returned to a user in at most ceil(s / 5) personalized slates
\* within any 24 hours
ExposureBounded ==
    \A a \in 1..Len(calls.shown) :
        FixedScoreNoClicks(a)
            => Cardinality(SameInWindow(a)) <= CeilDiv(calls.shown[a].base, 5)

\* C29: an item with no recorded click and a score of s before the penalty
\* is returned to a user in at most ceil(s / 5) personalized slates within
\* any 24 hours, provided the view of each of these returns was recorded
ExposureBoundedWhenRecorded ==
    \A a \in 1..Len(calls.shown) :
        FixedScoreNoClicks(a) /\ ViewsRecorded(a)
            => Cardinality(SameInWindow(a)) <= CeilDiv(calls.shown[a].base, 5)

\* C29 witness: an item that scores 10 before the penalty and has no click
\* was returned to u1 twice within an hour, both views recorded, and the
\* third request of u1 returned a slate without it
BoundReached ==
    /\ last.op = "get_personalized_ads"
    /\ calls.ads = 3
    /\ \E a \in 1..Len(calls.shown) :
           /\ calls.shown[a].user_id = "u1"
           /\ calls.shown[a].base = 10
           /\ FixedScoreNoClicks(a)
           /\ ViewsRecorded(a)
           /\ Cardinality(SameInWindow(a)) = 2
           /\ calls.shown[a].product_id \notin {last.returned[n].product_id :
                                                    n \in 1..Len(last.returned)}
           /\ now <= calls.shown[a].timestamp + 1
           /\ Len(last.returned) >= 1

====
